---- MODULE Spec2Model ----
(***************************************************************************)
(* hivebox: the temperature read path (sensor aggregation, the Valkey      *)
(* response cache with refresh-ahead and its refresh lock) and the durable *)
(* write path (the in-memory record buffer, the flusher, MinIO).           *)
(*                                                                         *)
(* Temperatures are integers in hundredths of a degree; times are whole    *)
(* seconds.  Spec is the cache side (temperature_service.py), SpecFlush    *)
(* the buffer/flush side (temperature_flusher.py, routes).                 *)
(***************************************************************************)
EXTENDS Integers, Sequences, FiniteSets, TLC

\* ---------------------------------------------------------------- constants

CACHE_TTL_SECONDS == 60
CACHE_REFRESH_THRESHOLD_SECONDS == 10
LOCK_TTL_SECONDS == 5
NumSenseBoxes == 3
FLUSH_INTERVAL_SECONDS == 300

\* ------------------------------------------------------------------- bounds

NThreads == 2
MaxCalls == 2
TickSeconds == 25
NWorkers == 2
MaxRecords == 2
MaxTime == 1
NStarters == 2
MaxStartCalls == 3
LoopTick == 150
TicksPerSecond == 2
MaxBatch == 3
MaxStamp == 3
AgeSpan == 2
TempSpan == 2

Threads == 1..NThreads
Workers == 1..NWorkers
Devices == 1..NumSenseBoxes
Starters == 1..NStarters

NoExpiry == -1
NoTtl == -1
NoAge == -1

\* ------------------------------------------------------------ sensor inputs

Reading(k, v, a) == [kind |-> k, value |-> v, age |-> a]

\* What one aggregation call finds at the three devices: kind "error" is a
\* failed fetch, "unusable" a payload without a usable temperature, "stale" a
\* measurement older than one hour, "fresh" a usable one.
SensorScenarios ==
    { [d \in Devices |-> Reading("error", 0, 0)],
      [d \in Devices |-> Reading("fresh", 1800 + 200 * d, 30 * d)],
      [d \in Devices |-> IF d = 2 THEN Reading("fresh", 3700, 60)
                         ELSE IF d = 1 THEN Reading("stale", 2100, 3601)
                         ELSE Reading("unusable", 0, 0)] }

RECURSIVE SumSeq(_)
SumSeq(s) == IF s = <<>> THEN 0 ELSE Head(s) + SumSeq(Tail(s))

max_age_hours == 1

NoData == Reading("none", 0, 0)

\* get_sensebox_data: None when the request fails (timeout, connection error,
\* HTTP error status, a body that is not JSON), else the box's JSON.
get_sensebox_data(r) ==
    IF r.kind \in {"error", "timeout", "connection", "http"} THEN NoData ELSE r

\* extract_temperature_value: None without a temperature sensor, without a
\* last measurement or with a value or createdAt that cannot be parsed, else
\* the measurement's value and timestamp (here its age).
extract_temperature_value(box_data) ==
    IF box_data.kind \in {"none", "unusable", "missing", "invalid"}
    THEN NoData
    ELSE Reading("measurement", box_data.value, box_data.age)

\* A variant of is_data_fresh with a strict bound.
is_data_fresh_Strict(age) == age < max_age_hours * 3600

\* is_data_fresh: (now - timestamp) <= timedelta(hours=max_age_hours).
is_data_fresh(age) == age <= max_age_hours * 3600

\* `if box_data:` ... `if temp_data and self.is_data_fresh(...)`.
Included(r) ==
    LET box_data == get_sensebox_data(r)
        temp_data == extract_temperature_value(box_data)
    IN /\ box_data # NoData
       /\ temp_data # NoData
       /\ is_data_fresh(temp_data.age)

\* A variant of the aggregation loop that skips the device listed first.
RECURSIVE FreshIds_SkipFirst(_, _)
FreshIds_SkipFirst(scen, ids) ==
    IF ids = <<>> THEN <<>>
    ELSE IF Included(scen[Head(ids)]) /\ Head(ids) # 1
         THEN <<Head(ids)>> \o FreshIds_SkipFirst(scen, Tail(ids))
         ELSE FreshIds_SkipFirst(scen, Tail(ids))

RECURSIVE FreshIds(_, _)
FreshIds(scen, ids) ==
    IF ids = <<>> THEN <<>>
    ELSE IF Included(scen[Head(ids)])
         THEN <<Head(ids)>> \o FreshIds(scen, Tail(ids))
         ELSE FreshIds(scen, Tail(ids))

SENSEBOX_IDS == [i \in 1..NumSenseBoxes |-> i]

NoAverage == [present |-> FALSE, sum |-> 0, n |-> 1]

\* sum(temperatures) / len(temperatures), kept as the exact quotient sum/n.
Mean(temps) == [present |-> TRUE, sum |-> SumSeq(temps), n |-> Len(temps)]

get_average_temperature_for_fresh_data(scen) ==
    LET used == FreshIds(scen, SENSEBOX_IDS)
        temperatures == [i \in 1..Len(used) |-> scen[used[i]].value]
    IN IF temperatures = <<>> THEN NoAverage ELSE Mean(temperatures)

\* The tuple the aggregator returns: (average, used_ids).
get_average_temperature_with_sources(scen) ==
    LET used == FreshIds(scen, SENSEBOX_IDS)
        temperatures == [i \in 1..Len(used) |-> scen[used[i]].value]
    IN IF temperatures = <<>>
       THEN <<NoAverage, <<>> >>
       ELSE <<Mean(temperatures), used>>

\* round(x, 2) of the quotient sum/n of hundredths: nearest, ties to even.
Round2(a) ==
    LET q == a.sum \div a.n
        r == a.sum % a.n
    IN IF 2 * r < a.n THEN q
       ELSE IF 2 * r > a.n THEN q + 1
       ELSE IF q % 2 = 0 THEN q ELSE q + 1

\* A variant of get_temperature_status whose upper threshold is exclusive.
get_temperature_status_Open(t) ==
    IF t < 1000 THEN "Too Cold"
    ELSE IF t < 3600 THEN "Good"
    ELSE "Too Hot"

get_temperature_status(t) ==
    IF t < 1000 THEN "Too Cold"
    ELSE IF t <= 3600 THEN "Good"
    ELSE "Too Hot"

\* ---------------------------------------------------------------- responses

NoneResult ==
    [kind |-> "none", exc |-> "", average_temperature |-> 0,
     status |-> "", data_age_seconds |-> NoAge]

Raise(e) ==
    [kind |-> "raise", exc |-> e, average_temperature |-> 0,
     status |-> "", data_age_seconds |-> NoAge]

TemperatureResponse(avg, st, age) ==
    [kind |-> "resp", exc |-> "", average_temperature |-> avg,
     status |-> st, data_age_seconds |-> age]

\* ------------------------------------------------------------ durable store

TemperatureRecord(i, avg, ts, srcs) ==
    [id |-> i, average_temperature |-> avg, timestamp |-> ts,
     source_hivebox_ids |-> srcs]

NoRecord == TemperatureRecord(0, 0, 0, <<>>)

\* get_latest_record left by an exception (KeyError, ValueError or TypeError
\* from the parsing after its try block).
RecordError == TemperatureRecord(-1, 0, 0, <<>>)

\* The bucket: a set of objects, one per key; a put to an existing key replaces
\* the object (last writer wins).  body "record" is the JSON put_temperature_record
\* writes.
Object(k, rec, lm) ==
    [key |-> k, record |-> rec, last_modified |-> lm, body |-> "record"]

\* An object some other writer left under the prefix: body "notjson" is text
\* json.loads rejects, "nofields" valid JSON without a usable timestamp or
\* average_temperature.
ForeignObject(k, lm, b) == [Object(k, NoRecord, lm) EXCEPT !.body = b]

\* A variant of ObjectName that keeps the fraction of the second.
ObjectName_Exact(rec) == rec.timestamp

\* strftime("temperature/%Y/%m/%d/%H%M%S.json"): the timestamp, which counts
\* TicksPerSecond ticks to the second, cut to whole seconds.
ObjectName(rec) == rec.timestamp \div TicksPerSecond

put_object(objs, rec, lm) ==
    {o \in objs : o.key # ObjectName(rec)} \cup {Object(ObjectName(rec), rec, lm)}

\* max(objects, key=last_modified) over the listing, which is in key order: of
\* several objects with the greatest last_modified the first listed is kept.
LatestObject(objs) ==
    LET top == {o \in objs : \A p \in objs : p.last_modified <= o.last_modified}
    IN CHOOSE o \in top : \A p \in top : o.key <= p.key

get_latest_record(objs, listOk, getOk) ==
    IF ~listOk THEN NoRecord
    ELSE IF objs = {} THEN NoRecord
    ELSE IF ~getOk THEN NoRecord
    ELSE IF LatestObject(objs).body = "notjson" THEN NoRecord
    ELSE IF LatestObject(objs).body = "nofields" THEN RecordError
    ELSE LatestObject(objs).record

\* --------------------------------------------------- the latest-temperature

Computed(res, coll, avg, srcs) ==
    [result |-> res, collect |-> coll, rounded |-> avg, sources |-> srcs]

\* get_latest_temperature_response, from the three-way unpacking of the
\* aggregator's tuple on.  minioCfg: MinioService.from_env() is not None.
get_latest_temperature_response(scen, minioCfg, objs, listOk, getOk, nowT) ==
    LET agg == get_average_temperature_with_sources(scen)
    IN IF Len(agg) # 3
       THEN Computed(Raise("ValueError"), FALSE, 0, <<>>)
       ELSE
         LET live == agg[1].present
             latest == get_latest_record(objs, listOk, getOk)
         IN IF ~live /\ ~minioCfg
            THEN Computed(NoneResult, FALSE, 0, <<>>)
            ELSE IF ~live /\ latest = RecordError
            THEN Computed(Raise("KeyError"), FALSE, 0, <<>>)
            ELSE IF ~live /\ latest = NoRecord
            THEN Computed(NoneResult, FALSE, 0, <<>>)
            ELSE
              LET average == IF live THEN agg[1]
                             ELSE [present |-> TRUE,
                                   sum |-> latest.average_temperature, n |-> 1]
                  sources == IF live THEN agg[2] ELSE latest.source_hivebox_ids
                  newest == IF live THEN agg[3] ELSE latest.timestamp
                  rounded == Round2(average)
              IN Computed(
                   TemperatureResponse(rounded, get_temperature_status(rounded),
                                       nowT - newest),
                   live, rounded, sources)

\* ------------------------------------------------------------ cache payload

\* What is stored under the cache key, by how json.loads and the deserializer
\* take it: "valid" a JSON object with a numeric average and a status,
\* "notjson" text json.loads rejects, "falsy" JSON that is falsy in Python
\* ({}, [], 0, null), "nonobject" truthy JSON that is no object, "noavg" /
\* "nostatus" an object without that key, "badavg" an average float() rejects.
Payload(k, r) == [kind |-> k, resp |-> r]

NoPayload == Payload("absent", NoneResult)

_serialize_temperature_response(response) == Payload("valid", response)

\* float(payload["average_temperature"]), str(payload["status"]); KeyError,
\* TypeError and ValueError give None, any other exception escapes.
_deserialize_temperature_response(payload) ==
    CASE payload.kind = "valid" ->
           TemperatureResponse(payload.resp.average_temperature,
                               payload.resp.status,
                               payload.resp.data_age_seconds)
      [] payload.kind \in {"noavg", "nostatus", "badavg"} -> NoneResult
      [] OTHER -> Raise("AttributeError")

\* ValkeyService.get_json: None (here NoPayload) on a failed GET, an absent or
\* empty value, or text that is not JSON; otherwise the parsed value.
get_json(entry, ok) ==
    IF ~ok THEN NoPayload
    ELSE IF ~entry.present THEN NoPayload
    ELSE IF entry.payload.kind = "notjson" THEN NoPayload
    ELSE entry.payload

\* `if cached_payload:` of get_latest_temperature_response_cached.
Truthy(payload) == payload.kind \notin {"absent", "falsy"}

\* The store's reply to TTL key: the seconds left, -1 for a key without expiry,
\* -2 for a missing key.
RawTtl(entry) == IF entry.present THEN entry.ttl ELSE -2

\* A variant of ttl that answers 0 where the store cannot be asked.
ttl_FailureAsZero(entry, ok) ==
    IF ~ok THEN 0
    ELSE IF RawTtl(entry) < 0 THEN NoTtl
    ELSE RawTtl(entry)

\* ValkeyService.ttl: None (NoTtl) on failure and on a negative reply.
ttl(entry, ok) ==
    IF ~ok THEN NoTtl
    ELSE IF RawTtl(entry) < 0 THEN NoTtl
    ELSE RawTtl(entry)

\* A variant of NeedsRefresh with the threshold itself excluded.
NeedsRefresh_Strict(t) == t # NoTtl /\ t < CACHE_REFRESH_THRESHOLD_SECONDS

\* A variant of NeedsRefresh that also refreshes on an unknown TTL.
NeedsRefresh_UnknownToo(t) == t <= CACHE_REFRESH_THRESHOLD_SECONDS

\* `ttl is not None and ttl <= CACHE_REFRESH_THRESHOLD_SECONDS`
NeedsRefresh(t) == t # NoTtl /\ t <= CACHE_REFRESH_THRESHOLD_SECONDS

Entry(p, t) == [present |-> TRUE, payload |-> p, ttl |-> t]

NoEntry == [present |-> FALSE, payload |-> NoPayload, ttl |-> 0]

\* ValkeyService.set_json: SET key value EX ttl_seconds; a failure is logged.
set_json(entry, payload, ttl_seconds, ok) ==
    IF ok THEN Entry(payload, ttl_seconds) ELSE entry

\* A variant of Aged in which a key is removed as soon as time passes.
Aged_Dropped(entry, d) ==
    IF ~entry.present \/ entry.ttl = NoExpiry THEN entry ELSE NoEntry

\* A variant of Aged in which a key outlives its TTL.
Aged_Kept(entry, d) ==
    IF ~entry.present \/ entry.ttl = NoExpiry THEN entry
    ELSE IF entry.ttl - d <= 0 THEN [entry EXCEPT !.ttl = 0]
    ELSE [entry EXCEPT !.ttl = entry.ttl - d]

\* A key's remaining time after d more seconds; a key at 0 is gone.
Aged(entry, d) ==
    IF ~entry.present \/ entry.ttl = NoExpiry THEN entry
    ELSE IF entry.ttl - d <= 0 THEN NoEntry
    ELSE [entry EXCEPT !.ttl = entry.ttl - d]

\* -------------------------------------------------------------------- state

VARIABLES
    valkey_service,   \* TRUE: ValkeyService.from_env() gave a client
    cache,            \* the entry under CACHE_KEY_LATEST
    cacheVer,         \* number of successful writes of the cache key
    lock,             \* the entry under CACHE_LOCK_KEY
    th,               \* per thread: what it runs and the call it made
    callCount,        \* cached calls started
    now,              \* seconds since start
    minioEnv,         \* TRUE: the MinIO configuration is in the environment
    objects,          \* the bucket's objects under temperature/
    _temperature_records,   \* the flusher's buffer
    nextId,           \* records built so far
    _minio_service,   \* TRUE: the flusher holds a MinIO client
    _records_lock,    \* the worker holding the buffer's lock, 0: free
    wk,               \* per worker: the request or flush it runs
    putLog,           \* ids of the records handed to put_temperature_record, in order
    _flusher_thread_started,  \* start_temperature_flusher's guard flag
    _flusher_stop_event,      \* TRUE: the stop event is set
    flusher,          \* the background loop: where it is and its clocks
    starter,          \* per caller of start_temperature_flusher: its position
    boot,             \* ensure_minio_ready_or_exit: its position and counters
    fn                \* a direct call of one function: arguments and result

vars == <<valkey_service, cache, cacheVer, lock, th, callCount, now,
          minioEnv, objects, _temperature_records, nextId,
          _minio_service, _records_lock, wk, putLog,
          _flusher_thread_started, _flusher_stop_event, flusher, starter,
          boot, fn>>

processSide == <<_flusher_thread_started, _flusher_stop_event, flusher, starter,
                 boot, fn>>

flushSide == <<_minio_service, _records_lock, wk, putLog>>

\* One call of get_latest_temperature_response_cached: what it read, what it
\* did and what it returned.  invoked counts the calls of
\* get_latest_temperature_response made by the calling thread, asyncInvoked
\* those made by the refresh thread it started.
NoCall ==
    [made |-> FALSE, done |-> FALSE, seen |-> NoPayload, seenVer |-> 0,
     hit |-> FALSE, getFailed |-> FALSE, ttlFailed |-> FALSE,
     setFailed |-> FALSE, ttlSeen |-> NoTtl, keyTtl |-> NoTtl,
     spawned |-> FALSE, invoked |-> 0, asyncInvoked |-> 0, wrote |-> FALSE,
     appended |-> 0, direct |-> NoneResult, result |-> NoneResult]

\* pc: "idle"; "get", "ttl", "compute" inside the cached call; "acquire",
\* "refresh", "release" inside _refresh_cached_temperature_response.
\* parent / parentCall: the thread and the call that started this refresh.
IdleThread ==
    [pc |-> "idle", parent |-> 0, parentCall |-> 0, callNo |-> 0,
     cur |-> NoCall, prev |-> NoCall]

\* A response of the HTTP surface: kind "flushed" is {flushed: n}, "temperature"
\* {average_temperature: n, status}, "error" {error, message}.
Http(code, k, n, st) == [status |-> code, kind |-> k, value |-> n, label |-> st]

NoHttp == Http(0, "", 0, "")

FlushResult(n, success) == [count |-> n, ok |-> success]

\* pc: "idle"; "init", "lock", "drain", "put" inside flush_temperature_records;
\* "aggregate", "collect", "append" inside the /temperature handler.
\* op: "store" (POST /store), "loop" (the periodic flusher), "temperature".
IdleWorker ==
    [pc |-> "idle", op |-> "", done |-> FALSE,
     batch |-> <<>>, idx |-> 0, putFailed |-> FALSE, sawEmpty |-> FALSE,
     unconfigured |-> FALSE, result |-> FlushResult(0, FALSE),
     record |-> NoRecord, served |-> "", appended |-> 0, http |-> NoHttp]

\* The background loop.  pc: "off" not started; "test" at the while condition;
\* "wait" inside _flusher_stop_event.wait; "woken" the wait timed out; "flush"
\* inside flush_temperature_records; "exited".  threads: flusher threads
\* started; waited: seconds spent in the current wait; sinceFlush: seconds since
\* the loop started or its last flush returned.
NoFlusher == [pc |-> "off", threads |-> 0, waited |-> 0, sinceFlush |-> 0]

\* A caller of start_temperature_flusher.  pc: "idle"; "check" before the test
\* of the flag; "set" before the flag is set; "spawn" before thread.start().
IdleStarter == [pc |-> "idle", calls |-> 0]

\* ensure_minio_ready_or_exit.  pc: "off"; "config" at MinioService.from_env;
\* "attempt" before ensure_bucket_or_raise; "sleep" inside time.sleep;
\* "returned"; "exited" (sys.exit).
NoBoot ==
    [pc |-> "off", skip |-> FALSE, config |-> "", create_bucket |-> FALSE,
     attempt |-> 0, ensured |-> "", wait_time |-> 0, slept |-> 0, sleeps |-> 0,
     status |-> 0]

\* One direct call of a function or one request to the WSGI app: op names it,
\* the other fields are its per-call inputs and its result.
NoFn ==
    [op |-> "", scen |-> [d \in Devices |-> Reading("error", 0, 0)],
     listOk |-> TRUE, getOk |-> TRUE, ok |-> TRUE, accessible |-> 0,
     resp |-> NoneResult, rec |-> NoRecord, age |-> NoAge, http |-> NoHttp,
     agg |-> <<NoAverage, <<>> >>, avg |-> NoAverage, t |-> 0, label |-> "",
     box_ids |-> <<>>, pos |-> 0, requests |-> <<>>, temperatures |-> <<>>,
     used_ids |-> <<>>, compensated |-> FALSE, average |-> 0,
     reachable |-> 0, raised |-> FALSE, total |-> 0]

\* Nothing of the process outside the request handlers has run.
ProcessIdle ==
    /\ _flusher_thread_started = FALSE
    /\ _flusher_stop_event = FALSE
    /\ flusher = NoFlusher
    /\ starter = [s \in Starters |-> IdleStarter]
    /\ boot = NoBoot
    /\ fn = NoFn

InitEntries ==
    { NoEntry,
      Entry(Payload("valid", TemperatureResponse(2200, "Good", NoAge)),
            CACHE_TTL_SECONDS),
      Entry(Payload("valid", TemperatureResponse(2200, "Good", NoAge)), NoExpiry),
      Entry(Payload("noavg", NoneResult), CACHE_TTL_SECONDS),
      Entry(Payload("nonobject", NoneResult), CACHE_TTL_SECONDS) }

Init ==
    /\ valkey_service \in BOOLEAN
    /\ cache \in InitEntries
    /\ valkey_service = FALSE => cache = NoEntry
    /\ cacheVer = 0
    /\ lock = NoEntry
    /\ th = [t \in Threads |-> IdleThread]
    /\ callCount = 0
    /\ now = 0
    /\ minioEnv = TRUE
    /\ objects = {}
    /\ _temperature_records = <<>>
    /\ nextId = 0
    /\ _minio_service = FALSE
    /\ _records_lock = 0
    /\ wk = [w \in Workers |-> IdleWorker]
    /\ putLog = <<>>
    /\ ProcessIdle

\* collect_temperature_record: a record stamped with the current time is
\* appended to the buffer under _records_lock.
\* datetime.now(timezone.utc), read at the start of second nowT.
Stamp(nowT) == nowT * TicksPerSecond

build_temperature_record(i, avg, srcs, nowT) ==
    TemperatureRecord(i, avg, Stamp(nowT), srcs)

Collected(c) ==
    IF c.collect
    THEN /\ _temperature_records' =
              Append(_temperature_records,
                     build_temperature_record(nextId + 1, c.rounded, c.sources, now))
         /\ nextId' = nextId + 1
    ELSE UNCHANGED <<_temperature_records, nextId>>

\* ------------------------------------ get_latest_temperature_response_cached

\* The call starts: without a cache client it goes straight to the computation.
CachedStart(t) ==
    /\ th[t].pc = "idle"
    /\ callCount < MaxCalls
    /\ callCount' = callCount + 1
    /\ th' = [th EXCEPT ![t] =
                [@ EXCEPT
                   !.pc = IF valkey_service THEN "get" ELSE "compute",
                   !.callNo = @ + 1,
                   !.prev = th[t].cur,
                   !.cur = [NoCall EXCEPT
                              !.made = TRUE,
                              !.invoked = IF valkey_service THEN 0 ELSE 1]]]
    /\ UNCHANGED <<processSide,
                   valkey_service, cache, cacheVer, lock, now, minioEnv, objects,
                   _temperature_records, nextId,
                   flushSide>>

\* valkey_service.get_json(CACHE_KEY_LATEST) and the deserialization: a valid
\* payload is a hit, anything get_json or the deserializer turns into None is a
\* miss, and an exception the deserializer does not catch escapes the call.
CachedGet(t, ok) ==
    /\ th[t].pc = "get"
    /\ LET payload == get_json(cache, ok)
           response == IF Truthy(payload)
                       THEN _deserialize_temperature_response(payload)
                       ELSE NoneResult
       IN th' = [th EXCEPT
                   ![t].pc = CASE response.kind = "resp" -> "ttl"
                               [] response.kind = "raise" -> "idle"
                               [] OTHER -> "compute",
                   ![t].cur = [@ EXCEPT
                                 !.getFailed = ~ok,
                                 !.seen = payload,
                                 !.seenVer = cacheVer,
                                 !.hit = (response.kind = "resp"),
                                 !.invoked = IF response.kind = "none" THEN 1 ELSE 0,
                                 !.result = response,
                                 !.done = (response.kind = "raise")]]
    /\ UNCHANGED <<processSide,
                   valkey_service, cache, cacheVer, lock, callCount, now,
                   minioEnv, objects, _temperature_records, nextId,
                   flushSide>>

\* threading.Thread(target=_refresh_cached_temperature_response).start()
_refresh_cached_temperature_response_async(t, r) ==
    [th EXCEPT ![r].pc = "acquire", ![r].parent = t,
               ![r].parentCall = th[t].callNo]

\* On a hit: valkey_service.ttl(CACHE_KEY_LATEST); at or below the threshold a
\* daemon thread is started on _refresh_cached_temperature_response; the cached
\* response is returned.
CachedTtl(t, ok) ==
    /\ th[t].pc = "ttl"
    /\ LET remaining == ttl(cache, ok)
           returned(f) == [f EXCEPT
                             ![t].pc = "idle",
                             ![t].cur = [@ EXCEPT
                                           !.ttlFailed = ~ok,
                                           !.ttlSeen = remaining,
                                           !.keyTtl = RawTtl(cache),
                                           !.spawned = NeedsRefresh(remaining),
                                           !.done = TRUE]]
       IN IF NeedsRefresh(remaining)
          THEN \E r \in Threads :
                 /\ th[r].pc = "idle"
                 /\ th' = returned(_refresh_cached_temperature_response_async(t, r))
          ELSE th' = returned(th)
    /\ UNCHANGED <<processSide,
                   valkey_service, cache, cacheVer, lock, callCount, now,
                   minioEnv, objects, _temperature_records, nextId,
                   flushSide>>

\* On a miss (or without a cache client): get_latest_temperature_response(),
\* and with a cache client a response is written under the full TTL.
CachedCompute(t, scen, minioOk, setOk) ==
    /\ th[t].pc = "compute"
    /\ LET c == get_latest_temperature_response(scen, minioEnv, objects,
                                                minioOk, minioOk, now)
           writes == valkey_service /\ c.result.kind = "resp"
       IN /\ th' = [th EXCEPT
                      ![t].pc = "idle",
                      ![t].cur = [@ EXCEPT
                                    !.direct = c.result, !.result = c.result,
                                    !.wrote = writes,
                                    !.setFailed = writes /\ ~setOk,
                                    !.appended = IF c.collect THEN 1 ELSE 0,
                                    !.done = TRUE]]
          /\ cache' = IF writes
                      THEN set_json(cache,
                                    _serialize_temperature_response(c.result),
                                    CACHE_TTL_SECONDS, setOk)
                      ELSE cache
          /\ cacheVer' = IF writes /\ setOk THEN cacheVer + 1 ELSE cacheVer
          /\ Collected(c)
    /\ UNCHANGED <<processSide,
                   valkey_service, lock, callCount, now, minioEnv, objects,
                   flushSide>>

\* ------------------------------------- _refresh_cached_temperature_response

\* A direct call of the refresh (or the refresh some other process runs).
\* Without a cache client it returns at once.
RefreshStart(r) ==
    /\ th[r].pc = "idle"
    /\ th' = [th EXCEPT ![r].pc = IF valkey_service THEN "acquire" ELSE "idle",
                        ![r].parent = 0, ![r].parentCall = 0]
    /\ UNCHANGED <<processSide,
                   valkey_service, cache, cacheVer, lock, callCount, now,
                   minioEnv, objects, _temperature_records, nextId,
                   flushSide>>

\* ValkeyService.acquire_lock: SET key "1" EX ttl NX; a failure counts as not
\* acquired.
acquire_lock(entry, ok) == ok /\ ~entry.present

\* The key an acquire_lock of refresher r creates.  The store holds the value
\* "1" whoever set it; `by` records the setter for the properties only, no
\* action reads it.
LockKey(r) ==
    [present |-> TRUE, payload |-> NoPayload, ttl |-> LOCK_TTL_SECONDS, by |-> r]

\* The refresh a call started has called get_latest_temperature_response.
Attributed(f, r) ==
    LET p == f[r].parent
    IN IF p = 0 THEN f
       ELSE IF f[p].callNo = f[r].parentCall
            THEN [f EXCEPT ![p].cur.asyncInvoked = @ + 1]
       ELSE IF f[p].callNo = f[r].parentCall + 1
            THEN [f EXCEPT ![p].prev.asyncInvoked = @ + 1]
       ELSE f

\* valkey_service.acquire_lock(CACHE_LOCK_KEY, ttl_seconds=5): without the lock
\* the refresh returns; with it the recomputation starts.
RefreshAcquire(r, ok) ==
    /\ th[r].pc = "acquire"
    /\ IF acquire_lock(lock, ok)
       THEN /\ lock' = LockKey(r)
            /\ th' = Attributed([th EXCEPT ![r].pc = "refresh"], r)
       ELSE /\ th' = [th EXCEPT ![r].pc = "idle"]
            /\ UNCHANGED lock
    /\ UNCHANGED <<processSide,
                   valkey_service, cache, cacheVer, callCount, now, minioEnv,
                   objects, _temperature_records, nextId,
                   flushSide>>

\* A variant of the refresh without the finally: an exception in the try block
\* leaves the function at once.
AfterTry_NoFinally(result) == IF result.kind = "raise" THEN "idle" ELSE "release"

\* try: ... finally: release_lock.  However the try block is left (the write,
\* the early return on None, an exception), the finally block runs next.
AfterTry(result) == "release"

\* The try block: get_latest_temperature_response(), and a response is written
\* to the cache under the full TTL.
RefreshCompute(r, scen, minioOk, setOk) ==
    /\ th[r].pc = "refresh"
    /\ LET c == get_latest_temperature_response(scen, minioEnv, objects,
                                                minioOk, minioOk, now)
           writes == c.result.kind = "resp"
       IN /\ cache' = IF writes
                      THEN set_json(cache,
                                    _serialize_temperature_response(c.result),
                                    CACHE_TTL_SECONDS, setOk)
                      ELSE cache
          /\ cacheVer' = IF writes /\ setOk THEN cacheVer + 1 ELSE cacheVer
          /\ Collected(c)
          /\ th' = [th EXCEPT ![r].pc = AfterTry(c.result)]
    /\ UNCHANGED <<processSide,
                   valkey_service, lock, callCount, now, minioEnv, objects,
                   flushSide>>

\* ValkeyService.release_lock: DEL key, whoever set it; a failure is logged.
release_lock(entry, ok) == IF ok THEN NoEntry ELSE entry

\* The finally block.
RefreshRelease(r, ok) ==
    /\ th[r].pc = "release"
    /\ lock' = release_lock(lock, ok)
    /\ th' = [th EXCEPT ![r].pc = "idle"]
    /\ UNCHANGED <<processSide,
                   valkey_service, cache, cacheVer, callCount, now,
                   minioEnv, objects, _temperature_records, nextId,
                   flushSide>>

\* Time passes in the cache store: both keys lose TickSeconds of their TTL and
\* a key that has none left is removed.
Tick ==
    /\ (cache.present /\ cache.ttl # NoExpiry) \/ lock.present
    /\ cache' = Aged(cache, TickSeconds)
    /\ lock' = Aged(lock, TickSeconds)
    /\ UNCHANGED <<processSide,
                   valkey_service, cacheVer, th, callCount, now, minioEnv,
                   objects, _temperature_records, nextId,
                   flushSide>>

Next ==
    \/ \E t \in Threads : CachedStart(t)
    \/ \E t \in Threads, ok \in BOOLEAN : CachedGet(t, ok)
    \/ \E t \in Threads, ok \in BOOLEAN : CachedTtl(t, ok)
    \/ \E t \in Threads, scen \in SensorScenarios, minioOk, setOk \in BOOLEAN :
         CachedCompute(t, scen, minioOk, setOk)
    \/ \E r \in Threads : RefreshStart(r)
    \/ \E r \in Threads, ok \in BOOLEAN : RefreshAcquire(r, ok)
    \/ \E r \in Threads, scen \in SensorScenarios, minioOk, setOk \in BOOLEAN :
         RefreshCompute(r, scen, minioOk, setOk)
    \/ \E r \in Threads, ok \in BOOLEAN : RefreshRelease(r, ok)
    \/ Tick

Spec == Init /\ [][Next]_vars

\* A refresher dies between taking the lock and releasing it: the refresh runs
\* in a daemon thread, which ends with its process wherever it is.
RefreshDies(r) ==
    /\ th[r].pc \in {"refresh", "release"}
    /\ th' = [th EXCEPT ![r].pc = "dead"]
    /\ UNCHANGED <<processSide,
                   valkey_service, cache, cacheVer, lock, callCount, now,
                   minioEnv, objects, _temperature_records, nextId,
                   flushSide>>

NextLock ==
    \/ Next
    \/ \E r \in Threads : RefreshDies(r)

\* Time passes in the cache store, whatever the threads do.
SpecLock == Init /\ [][NextLock]_vars /\ WF_vars(Tick)

\* -------------------------------------------------------- the flush worker

\* A variant of records_to_push that takes the buffer newest first.
records_to_push_Reversed(buffer) ==
    [i \in 1..Len(buffer) |-> buffer[Len(buffer) + 1 - i]]

\* A variant of records_to_push that copies the buffer's first record only.
records_to_push_First(buffer) == SubSeq(buffer, 1, 1)

\* `records_to_push = list(_temperature_records)`
records_to_push(buffer) == buffer

\* A variant of Cleared that leaves the drained records in the buffer.
Cleared_Kept(buffer) == buffer

\* `_temperature_records.clear()`
Cleared(buffer) == <<>>

\* MinioService.put_temperature_record: one object per record; a failed
\* put_object is logged and nothing is raised.
put_temperature_record(objs, rec, lm, ok) ==
    IF ok THEN put_object(objs, rec, lm) ELSE objs

\* A variant of NotConfigured that reports success.
NotConfigured_Success == FlushResult(0, TRUE)

\* flush_temperature_records' two returns.
NotConfigured == FlushResult(0, FALSE)

Flushed(n) == FlushResult(n, TRUE)

\* A variant of store_temperature_records that ignores the success flag.
store_temperature_records_Always200(res) == Http(200, "flushed", res.count, "")

\* store_temperature_records: 503 unless the flush reports success.
store_temperature_records(res) ==
    IF ~res.ok
    THEN Http(503, "error", 0, "MinIO not configured")
    ELSE Http(200, "flushed", res.count, "")

Answered(w, res) == IF wk[w].op = "store" THEN store_temperature_records(res) ELSE NoHttp

\* POST /store, or the periodic loop's wake-up, calls flush_temperature_records.
FlushStart(w, via) ==
    /\ wk[w].pc = "idle"
    /\ via = "loop" => \A v \in Workers : ~(wk[v].op = "loop" /\ wk[v].pc # "idle")
    /\ wk' = [wk EXCEPT ![w] = [IdleWorker EXCEPT !.pc = "init", !.op = via]]
    /\ UNCHANGED <<processSide,
                   valkey_service, cache, cacheVer, lock, th, callCount, now,
                   minioEnv, objects, _temperature_records, nextId,
                   _minio_service, _records_lock, putLog>>

\* The lazy MinioService.from_env(); without a client: return 0, False.
FlushInit(w) ==
    /\ wk[w].pc = "init"
    /\ LET service == _minio_service \/ minioEnv
       IN /\ _minio_service' = service
          /\ wk' = [wk EXCEPT ![w] =
                      IF service
                      THEN [@ EXCEPT !.pc = "lock"]
                      ELSE [@ EXCEPT !.pc = "idle", !.done = TRUE,
                                     !.unconfigured = TRUE,
                                     !.result = NotConfigured,
                                     !.http = Answered(w, NotConfigured)]]
    /\ UNCHANGED <<processSide,
                   valkey_service, cache, cacheVer, lock, th, callCount, now,
                   minioEnv, objects, _temperature_records, nextId,
                   _records_lock, putLog>>

\* A variant of Released in which leaving the block keeps the lock.
Released_Held(holder) == holder

\* Leaving a `with _records_lock:` block releases the lock its holder took.
Released(holder) == 0

\* _flush_collected_records up to `with _records_lock:`.
FlushLock(w) ==
    /\ wk[w].pc = "lock"
    /\ IF ~_minio_service
       THEN /\ wk' = [wk EXCEPT ![w] = [@ EXCEPT !.pc = "idle", !.done = TRUE,
                                                 !.result = Flushed(0),
                                                 !.http = Answered(w, Flushed(0))]]
            /\ UNCHANGED _records_lock
       ELSE /\ _records_lock = 0
            /\ _records_lock' = w
            /\ wk' = [wk EXCEPT ![w].pc = "drain"]
    /\ UNCHANGED <<processSide,
                   valkey_service, cache, cacheVer, lock, th, callCount, now,
                   minioEnv, objects, _temperature_records, nextId,
                   _minio_service, putLog>>

\* Under the lock: an empty buffer returns 0; otherwise the buffer is copied and
\* cleared.  The lock is released on leaving the block.
FlushDrain(w) ==
    /\ wk[w].pc = "drain"
    /\ _records_lock' = Released(w)
    /\ IF _temperature_records = <<>>
       THEN /\ wk' = [wk EXCEPT ![w] = [@ EXCEPT !.pc = "idle", !.done = TRUE,
                                                 !.sawEmpty = TRUE,
                                                 !.result = Flushed(0),
                                                 !.http = Answered(w, Flushed(0))]]
            /\ UNCHANGED _temperature_records
       ELSE /\ wk' = [wk EXCEPT ![w] =
                        [@ EXCEPT !.pc = "put",
                                  !.batch = records_to_push(_temperature_records)]]
            /\ _temperature_records' = Cleared(_temperature_records)
    /\ UNCHANGED <<processSide,
                   valkey_service, cache, cacheVer, lock, th, callCount, now,
                   minioEnv, objects, nextId, _minio_service, putLog>>

\* put_temperature_records, one record per step, outside the lock; after the
\* last one the flush returns len(records_to_push), True.
FlushPut(w, ok) ==
    /\ wk[w].pc = "put"
    /\ LET rec == wk[w].batch[wk[w].idx + 1]
           last == wk[w].idx + 1 = Len(wk[w].batch)
           res == Flushed(Len(wk[w].batch))
       IN /\ objects' = put_temperature_record(objects, rec, now, ok)
          /\ putLog' = Append(putLog, rec.id)
          /\ wk' = [wk EXCEPT ![w] =
                      [@ EXCEPT !.idx = @ + 1,
                                !.putFailed = @ \/ ~ok,
                                !.pc = IF last THEN "idle" ELSE "put",
                                !.done = last,
                                !.result = IF last THEN res ELSE @,
                                !.http = IF last THEN Answered(w, res) ELSE @]]
    /\ UNCHANGED <<processSide,
                   valkey_service, cache, cacheVer, lock, th, callCount, now,
                   minioEnv, _temperature_records, nextId, _minio_service,
                   _records_lock>>

\* ------------------------------------------------------- GET /temperature

\* The handler's data: the live average over SENSEBOX_IDS, else the latest
\* MinIO record's; served is "live", "fallback", "none", or "raise" when
\* get_latest_record's exception leaves the handler.
RouteData(k, avg, ids) == [served |-> k, rounded |-> avg, sensebox_ids |-> ids]

temperature(scen, minioCfg, objs, listOk, getOk) ==
    LET avg_temp == get_average_temperature_for_fresh_data(scen)
        latest == IF minioCfg THEN get_latest_record(objs, listOk, getOk)
                  ELSE NoRecord
    IN IF avg_temp.present
       THEN RouteData("live", Round2(avg_temp), SENSEBOX_IDS)
       ELSE IF latest = RecordError
       THEN RouteData("raise", 0, <<>>)
       ELSE IF latest # NoRecord
       THEN RouteData("fallback",
                      Round2([present |-> TRUE,
                              sum |-> latest.average_temperature, n |-> 1]),
                      latest.source_hivebox_ids)
       ELSE RouteData("none", 0, <<>>)

Building == {w \in Workers : wk[w].pc = "aggregate"}

TemperatureStart(w) ==
    /\ wk[w].pc = "idle"
    /\ nextId + Cardinality(Building) < MaxRecords
    /\ wk' = [wk EXCEPT ![w] = [IdleWorker EXCEPT !.pc = "aggregate",
                                                 !.op = "temperature"]]
    /\ UNCHANGED <<processSide,
                   valkey_service, cache, cacheVer, lock, th, callCount, now,
                   minioEnv, objects, _temperature_records, nextId,
                   _minio_service, _records_lock, putLog>>

\* The handler up to collect_temperature_record's `with _records_lock:`: no
\* data answers 503, an escaping exception 500; otherwise the record is built
\* with the current time.
TemperatureAggregate(w, scen, listOk, getOk) ==
    /\ wk[w].pc = "aggregate"
    /\ LET d == temperature(scen, minioEnv, objects, listOk, getOk)
       IN IF d.served = "none"
          THEN /\ wk' = [wk EXCEPT ![w] =
                           [@ EXCEPT !.pc = "idle", !.done = TRUE,
                                     !.served = "none",
                                     !.http = Http(503, "error", 0,
                                                   "No temperature data available")]]
               /\ UNCHANGED nextId
          ELSE IF d.served = "raise"
          THEN /\ wk' = [wk EXCEPT ![w] =
                           [@ EXCEPT !.pc = "idle", !.done = TRUE,
                                     !.served = "raise",
                                     !.http = Http(500, "error", 0,
                                                   "Internal Server Error")]]
               /\ UNCHANGED nextId
          ELSE /\ wk' = [wk EXCEPT ![w] =
                           [@ EXCEPT !.pc = "collect", !.served = d.served,
                                     !.record = build_temperature_record(
                                                  nextId + 1, d.rounded,
                                                  d.sensebox_ids, now)]]
               /\ nextId' = nextId + 1
    /\ UNCHANGED <<processSide,
                   valkey_service, cache, cacheVer, lock, th, callCount, now,
                   minioEnv, objects, _temperature_records,
                   _minio_service, _records_lock, putLog>>

TemperatureLock(w) ==
    /\ wk[w].pc = "collect"
    /\ _records_lock = 0
    /\ _records_lock' = w
    /\ wk' = [wk EXCEPT ![w].pc = "append"]
    /\ UNCHANGED <<processSide,
                   valkey_service, cache, cacheVer, lock, th, callCount, now,
                   minioEnv, objects, _temperature_records, nextId,
                   _minio_service, putLog>>

\* `_temperature_records.append(record)`, the lock released, and the 200.
TemperatureAppend(w) ==
    /\ wk[w].pc = "append"
    /\ _temperature_records' = Append(_temperature_records, wk[w].record)
    /\ _records_lock' = Released(w)
    /\ wk' = [wk EXCEPT ![w] =
                [@ EXCEPT !.pc = "idle", !.done = TRUE, !.appended = 1,
                          !.http = Http(200, "temperature",
                                        wk[w].record.average_temperature,
                                        get_temperature_status(
                                          wk[w].record.average_temperature))]]
    /\ UNCHANGED <<processSide,
                   valkey_service, cache, cacheVer, lock, th, callCount, now,
                   minioEnv, objects, nextId, _minio_service, putLog>>

\* ------------------------------------------------------------- environment

\* The MinIO configuration appears in the environment.
MinioConfigured ==
    /\ ~minioEnv
    /\ minioEnv' = TRUE
    /\ UNCHANGED <<processSide,
                   valkey_service, cache, cacheVer, lock, th, callCount, now,
                   objects, _temperature_records, nextId,
                   _minio_service, _records_lock, wk, putLog>>

ClockTick ==
    /\ now < MaxTime
    /\ now' = now + 1
    /\ UNCHANGED <<processSide,
                   valkey_service, cache, cacheVer, lock, th, callCount,
                   minioEnv, objects, _temperature_records, nextId,
                   _minio_service, _records_lock, wk, putLog>>

InitFlush ==
    /\ valkey_service = FALSE
    /\ cache = NoEntry
    /\ cacheVer = 0
    /\ lock = NoEntry
    /\ th = [t \in Threads |-> IdleThread]
    /\ callCount = 0
    /\ now = 0
    /\ minioEnv \in BOOLEAN
    /\ objects = {}
    /\ _temperature_records = <<>>
    /\ nextId = 0
    /\ _minio_service = FALSE
    /\ _records_lock = 0
    /\ wk = [w \in Workers |-> IdleWorker]
    /\ putLog = <<>>
    /\ ProcessIdle

NextFlush ==
    \/ \E w \in Workers, via \in {"store", "loop"} : FlushStart(w, via)
    \/ \E w \in Workers : FlushInit(w)
    \/ \E w \in Workers : FlushLock(w)
    \/ \E w \in Workers : FlushDrain(w)
    \/ \E w \in Workers, ok \in BOOLEAN : FlushPut(w, ok)
    \/ \E w \in Workers : TemperatureStart(w)
    \/ \E w \in Workers, scen \in SensorScenarios, listOk, getOk \in BOOLEAN :
         TemperatureAggregate(w, scen, listOk, getOk)
    \/ \E w \in Workers : TemperatureLock(w)
    \/ \E w \in Workers : TemperatureAppend(w)
    \/ MinioConfigured
    \/ ClockTick

SpecFlush == InitFlush /\ [][NextFlush]_vars

\* ------------------------------------------------------------ /readyz, app

CACHE_MAX_AGE_MINUTES == 5

Max0(x) == IF x > 0 THEN x ELSE 0

\* A variant of get_cache_age_seconds that reports milliseconds.
get_cache_age_seconds_Millis(client, entry, ok) ==
    IF ~client THEN NoAge
    ELSE IF ttl(entry, ok) = NoTtl THEN NoAge
    ELSE Max0(CACHE_TTL_SECONDS - ttl(entry, ok)) * 1000

\* A variant of get_cache_age_seconds without the clamp at 0.
get_cache_age_seconds_Unclamped(client, entry, ok) ==
    IF ~client THEN NoAge
    ELSE IF ttl(entry, ok) = NoTtl THEN NoAge
    ELSE CACHE_TTL_SECONDS - ttl(entry, ok)

\* get_cache_age_seconds: None (NoAge) without a client or without a TTL reply,
\* otherwise max(0, CACHE_TTL_SECONDS - ttl).
get_cache_age_seconds(client, entry, ok) ==
    IF ~client THEN NoAge
    ELSE IF ttl(entry, ok) = NoTtl THEN NoAge
    ELSE Max0(CACHE_TTL_SECONDS - ttl(entry, ok))

Probe(r, a, t) == [raised |-> r, accessible |-> a, total |-> t]

\* check_sensebox_accessibility: for the first id of SENSEBOX_IDS it calls
\* sensebox_service.is_box_accessible, an attribute SenseBoxService does not
\* define, so the call is left by an AttributeError.
\* reachable: how many of the devices would answer a fetch.
check_sensebox_accessibility(reachable) ==
    IF Len(SENSEBOX_IDS) = 0 THEN Probe(FALSE, 0, 0)
    ELSE Probe(TRUE, 0, Len(SENSEBOX_IDS))

\* readyz from `inaccessible = total - accessible` on.
Readiness(accessible, total, cache_age_seconds) ==
    LET inaccessible == total - accessible
        threshold == total \div 2
        too_many_inaccessible == inaccessible > threshold
        cache_too_old == IF cache_age_seconds # NoAge
                         THEN cache_age_seconds > CACHE_MAX_AGE_MINUTES * 60
                         ELSE FALSE
    IN IF too_many_inaccessible /\ cache_too_old
       THEN Http(503, "status", inaccessible, "not_ready")
       ELSE Http(200, "status", inaccessible, "ready")

InternalServerError == Http(500, "error", 0, "Internal Server Error")

\* The /readyz view function; an exception leaving it is answered 500.
readyz(reachable, client, entry, ok) ==
    LET probe == check_sensebox_accessibility(reachable)
    IN IF probe.raised THEN InternalServerError
       ELSE Readiness(probe.accessible, probe.total,
                      get_cache_age_seconds(client, entry, ok))

\* The rules of the blueprints create_app registers.
RegisteredRules == {"/metrics", "/version", "/temperature", "/store"}

NotFound == Http(404, "error", 0, "Not Found")

\* ------------------------------------------------------------ direct calls

TwoRecords ==
    [k \in 0..1 |-> TemperatureRecord(k + 1, 2000 + 300 * k, Stamp(k), <<1, 2>>)]

\* Bucket contents a call can find: empty; objects written in different
\* seconds; two objects with the same last-modified time; objects of another
\* writer.
InitBuckets ==
    { {},
      {Object(0, TwoRecords[0], 1)},
      {Object(0, TwoRecords[0], 2), Object(1, TwoRecords[1], 1)},
      {Object(0, TwoRecords[0], 1), Object(1, TwoRecords[1], 1)},
      {Object(0, TwoRecords[0], 1), ForeignObject(5, 3, "nofields")},
      {ForeignObject(5, 3, "notjson")} }

\* Cache entries a call can find, with the TTL this program sets, with what is
\* left of it later, with a longer one and with none.
CallEntries ==
    { NoEntry,
      Entry(Payload("valid", TemperatureResponse(2200, "Good", NoAge)), 60),
      Entry(Payload("valid", TemperatureResponse(2200, "Good", NoAge)), 35),
      Entry(Payload("valid", TemperatureResponse(2200, "Good", NoAge)), 90),
      Entry(Payload("valid", TemperatureResponse(2200, "Good", NoAge)), NoExpiry) }

CallLatestResponse(scen, listOk, getOk) ==
    /\ fn.op = ""
    /\ LET c == get_latest_temperature_response(scen, minioEnv, objects,
                                                listOk, getOk, now)
       IN /\ fn' = [NoFn EXCEPT !.op = "get_latest_temperature_response",
                                !.scen = scen, !.listOk = listOk,
                                !.getOk = getOk, !.resp = c.result]
          /\ Collected(c)
    /\ UNCHANGED <<valkey_service, cache, cacheVer, lock, th, callCount, now,
                   minioEnv, objects, flushSide, _flusher_thread_started,
                   _flusher_stop_event, flusher, starter, boot>>

\* MinioService.from_env().get_latest_record()
CallLatestRecord(listOk, getOk) ==
    /\ fn.op = ""
    /\ minioEnv
    /\ fn' = [NoFn EXCEPT !.op = "get_latest_record",
                          !.listOk = listOk, !.getOk = getOk,
                          !.rec = get_latest_record(objects, listOk, getOk)]
    /\ UNCHANGED <<valkey_service, cache, cacheVer, lock, th, callCount, now,
                   minioEnv, objects, _temperature_records, nextId, flushSide,
                   _flusher_thread_started, _flusher_stop_event, flusher,
                   starter, boot>>

CallCacheAge(ok) ==
    /\ fn.op = ""
    /\ fn' = [NoFn EXCEPT !.op = "get_cache_age_seconds", !.ok = ok,
                          !.age = get_cache_age_seconds(valkey_service, cache, ok)]
    /\ UNCHANGED <<valkey_service, cache, cacheVer, lock, th, callCount, now,
                   minioEnv, objects, _temperature_records, nextId, flushSide,
                   _flusher_thread_started, _flusher_stop_event, flusher,
                   starter, boot>>

\* check_sensebox_accessibility() called on its own, reachable of the devices
\* being ready to answer a fetch.
CallCheckAccessibility(reachable) ==
    /\ fn.op = ""
    /\ LET probe == check_sensebox_accessibility(reachable)
       IN fn' = [NoFn EXCEPT !.op = "check_sensebox_accessibility",
                             !.reachable = reachable,
                             !.raised = probe.raised,
                             !.accessible = probe.accessible,
                             !.total = probe.total]
    /\ UNCHANGED <<valkey_service, cache, cacheVer, lock, th, callCount, now,
                   minioEnv, objects, _temperature_records, nextId, flushSide,
                   _flusher_thread_started, _flusher_stop_event, flusher,
                   starter, boot>>

\* GET /readyz sent to the app create_app returns: a rule that is not
\* registered is answered 404.
AppGetReadyz(reachable, ok) ==
    /\ fn.op = ""
    /\ fn' = [NoFn EXCEPT !.op = "GET /readyz", !.accessible = reachable,
                          !.ok = ok,
                          !.age = get_cache_age_seconds(valkey_service, cache, ok),
                          !.http = IF "/readyz" \in RegisteredRules
                                   THEN readyz(reachable, valkey_service, cache, ok)
                                   ELSE NotFound]
    /\ UNCHANGED <<valkey_service, cache, cacheVer, lock, th, callCount, now,
                   minioEnv, objects, _temperature_records, nextId, flushSide,
                   _flusher_thread_started, _flusher_stop_event, flusher,
                   starter, boot>>

InitCalls ==
    /\ valkey_service \in BOOLEAN
    /\ cache \in CallEntries
    /\ cacheVer = 0
    /\ lock = NoEntry
    /\ th = [t \in Threads |-> IdleThread]
    /\ callCount = 0
    /\ now = 0
    /\ minioEnv \in BOOLEAN
    /\ objects \in InitBuckets
    /\ _temperature_records = <<>>
    /\ nextId = 0
    /\ _minio_service = FALSE
    /\ _records_lock = 0
    /\ wk = [w \in Workers |-> IdleWorker]
    /\ putLog = <<>>
    /\ ProcessIdle

NextCalls ==
    \/ \E scen \in SensorScenarios, listOk, getOk \in BOOLEAN :
         CallLatestResponse(scen, listOk, getOk)
    \/ \E listOk, getOk \in BOOLEAN : CallLatestRecord(listOk, getOk)
    \/ \E ok \in BOOLEAN : CallCacheAge(ok)
    \/ \E reachable \in 0..NumSenseBoxes : CallCheckAccessibility(reachable)
    \/ \E reachable \in 0..NumSenseBoxes, ok \in BOOLEAN :
         AppGetReadyz(reachable, ok)

SpecCalls == InitCalls /\ [][NextCalls]_vars

\* ------------------------------------------------- GET /temperature alone

\* What a fetch of one device can end in: a fresh measurement; a timeout, a
\* connection error or an HTTP error (get_sensebox_data returns None); no
\* temperature sensor or a value float() rejects (extract_temperature_value
\* returns None); a measurement older than one hour.
DeviceOutcomes(d) ==
    { Reading("fresh", 1800 + 200 * d, 30 * d),
      Reading("timeout", 0, 0), Reading("connection", 0, 0),
      Reading("http", 0, 0), Reading("missing", 0, 0),
      Reading("invalid", 0, 0), Reading("stale", 2100, 3601) }

OutcomeScenarios == {scen \in [Devices -> UNION {DeviceOutcomes(d) : d \in Devices}] :
                        \A d \in Devices : scen[d] \in DeviceOutcomes(d)}

InitRoutes ==
    /\ valkey_service = FALSE
    /\ cache = NoEntry
    /\ cacheVer = 0
    /\ lock = NoEntry
    /\ th = [t \in Threads |-> IdleThread]
    /\ callCount = 0
    /\ now = 0
    /\ minioEnv \in BOOLEAN
    /\ objects \in InitBuckets
    /\ _temperature_records = <<>>
    /\ nextId = 0
    /\ _minio_service = FALSE
    /\ _records_lock = 0
    /\ wk = [w \in Workers |-> IdleWorker]
    /\ putLog = <<>>
    /\ ProcessIdle

NextRoutes ==
    \/ \E w \in Workers : TemperatureStart(w)
    \/ \E w \in Workers, scen \in OutcomeScenarios, listOk, getOk \in BOOLEAN :
         TemperatureAggregate(w, scen, listOk, getOk)
    \/ \E w \in Workers : TemperatureLock(w)
    \/ \E w \in Workers : TemperatureAppend(w)
    \/ ClockTick

SpecRoutes == InitRoutes /\ [][NextRoutes]_vars

\* ------------------------------------------------------ _temperature_flusher

\* The worker slot the background thread's flush runs in.
LoopWorker == 1

Requesters == Workers \ {LoopWorker}

\* A variant of wait whose timeout never expires.
wait_Never(is_set, waited) == IF is_set THEN "set" ELSE "blocked"

\* A variant of wait in which the timeout has passed as soon as any time has.
wait_Early(is_set, waited) ==
    IF is_set THEN "set"
    ELSE IF waited > 0 THEN "timeout"
    ELSE "blocked"

\* _flusher_stop_event.wait(timeout=FLUSH_INTERVAL_SECONDS): True ("set") once
\* the event is set, False ("timeout") after the timeout, blocked until then.
wait(is_set, waited) ==
    IF is_set THEN "set"
    ELSE IF waited >= FLUSH_INTERVAL_SECONDS THEN "timeout"
    ELSE "blocked"

\* `while not _flusher_stop_event.is_set():`
LoopTest ==
    /\ flusher.pc = "test"
    /\ flusher' = [flusher EXCEPT
                     !.pc = IF _flusher_stop_event THEN "exited" ELSE "wait",
                     !.waited = 0]
    /\ UNCHANGED <<valkey_service, cache, cacheVer, lock, th, callCount, now,
                   minioEnv, objects, _temperature_records, nextId, flushSide,
                   _flusher_thread_started, _flusher_stop_event, starter,
                   boot, fn>>

\* `if _flusher_stop_event.wait(timeout=...): break`
LoopWait ==
    /\ flusher.pc = "wait"
    /\ wait(_flusher_stop_event, flusher.waited) # "blocked"
    /\ flusher' = [flusher EXCEPT
                     !.pc = IF wait(_flusher_stop_event, flusher.waited) = "set"
                            THEN "exited" ELSE "woken"]
    /\ UNCHANGED <<valkey_service, cache, cacheVer, lock, th, callCount, now,
                   minioEnv, objects, _temperature_records, nextId, flushSide,
                   _flusher_thread_started, _flusher_stop_event, starter,
                   boot, fn>>

\* The loop's call of flush_temperature_records.
LoopFlushStart ==
    /\ flusher.pc = "woken"
    /\ wk[LoopWorker].pc = "idle"
    /\ flusher' = [flusher EXCEPT !.pc = "flush"]
    /\ wk' = [wk EXCEPT ![LoopWorker] =
                [IdleWorker EXCEPT !.pc = "init", !.op = "loop"]]
    /\ UNCHANGED <<valkey_service, cache, cacheVer, lock, th, callCount, now,
                   minioEnv, objects, _temperature_records, nextId,
                   _minio_service, _records_lock, putLog,
                   _flusher_thread_started, _flusher_stop_event, starter,
                   boot, fn>>

\* flush_temperature_records has returned to the loop.
LoopFlushReturn ==
    /\ flusher.pc = "flush"
    /\ wk[LoopWorker].pc = "idle" /\ wk[LoopWorker].done
    /\ flusher' = [flusher EXCEPT !.pc = "test", !.sinceFlush = 0]
    /\ UNCHANGED <<valkey_service, cache, cacheVer, lock, th, callCount, now,
                   minioEnv, objects, _temperature_records, nextId, flushSide,
                   _flusher_thread_started, _flusher_stop_event, starter,
                   boot, fn>>

\* _flusher_stop_event.set(), by whoever shuts the process down.
StopSet ==
    /\ ~_flusher_stop_event
    /\ _flusher_stop_event' = TRUE
    /\ UNCHANGED <<valkey_service, cache, cacheVer, lock, th, callCount, now,
                   minioEnv, objects, _temperature_records, nextId, flushSide,
                   _flusher_thread_started, flusher, starter, boot, fn>>

Least(a, b) == IF a < b THEN a ELSE b

\* LoopTick seconds pass; sinceFlush is counted up to twice the interval.
LoopTime ==
    /\ flusher.pc # "exited"
    /\ IF flusher.pc = "wait"
       THEN flusher.waited < FLUSH_INTERVAL_SECONDS
       ELSE flusher.sinceFlush < 2 * FLUSH_INTERVAL_SECONDS
    /\ flusher' = [flusher EXCEPT
                     !.waited = IF flusher.pc = "wait" THEN @ + LoopTick ELSE @,
                     !.sinceFlush = Least(@ + LoopTick,
                                          2 * FLUSH_INTERVAL_SECONDS)]
    /\ UNCHANGED <<valkey_service, cache, cacheVer, lock, th, callCount, now,
                   minioEnv, objects, _temperature_records, nextId, flushSide,
                   _flusher_thread_started, _flusher_stop_event, starter,
                   boot, fn>>

\* The flusher thread has just been started; MinIO is configured.
InitLoop ==
    /\ valkey_service = FALSE
    /\ cache = NoEntry
    /\ cacheVer = 0
    /\ lock = NoEntry
    /\ th = [t \in Threads |-> IdleThread]
    /\ callCount = 0
    /\ now = 0
    /\ minioEnv = TRUE
    /\ objects = {}
    /\ _temperature_records = <<>>
    /\ nextId = 0
    /\ _minio_service = FALSE
    /\ _records_lock = 0
    /\ wk = [w \in Workers |-> IdleWorker]
    /\ putLog = <<>>
    /\ _flusher_thread_started = TRUE
    /\ _flusher_stop_event = FALSE
    /\ flusher = [NoFlusher EXCEPT !.pc = "test", !.threads = 1]
    /\ starter = [s \in Starters |-> IdleStarter]
    /\ boot = NoBoot
    /\ fn = NoFn

LoopSteps ==
    \/ LoopTest
    \/ LoopWait
    \/ LoopFlushStart
    \/ LoopFlushReturn

FlushSteps ==
    \/ \E w \in Workers : FlushInit(w)
    \/ \E w \in Workers : FlushLock(w)
    \/ \E w \in Workers : FlushDrain(w)
    \/ \E w \in Workers, ok \in BOOLEAN : FlushPut(w, ok)

RequestSteps ==
    \/ \E w \in Requesters : FlushStart(w, "store")
    \/ \E w \in Requesters : TemperatureStart(w)
    \/ \E w \in Requesters, scen \in SensorScenarios, listOk, getOk \in BOOLEAN :
         TemperatureAggregate(w, scen, listOk, getOk)
    \/ \E w \in Requesters : TemperatureLock(w)
    \/ \E w \in Requesters : TemperatureAppend(w)

NextLoop ==
    \/ LoopSteps
    \/ FlushSteps
    \/ RequestSteps
    \/ StopSet
    \/ LoopTime

SpecLoop == InitLoop /\ [][NextLoop]_vars

\* Every thread that can take a step eventually takes one, and time passes:
\* each flush in progress and the loop itself keep running.
FlushStep(w) ==
    \/ FlushInit(w)
    \/ FlushLock(w)
    \/ FlushDrain(w)
    \/ \E ok \in BOOLEAN : FlushPut(w, ok)

LoopFairness ==
    /\ WF_vars(LoopSteps)
    /\ WF_vars(LoopTime)
    /\ \A w \in Workers : WF_vars(FlushStep(w))
    /\ \A w \in Requesters : WF_vars(TemperatureLock(w) \/ TemperatureAppend(w))

SpecLoopFair == InitLoop /\ [][NextLoop]_vars /\ LoopFairness

\* -------------------------------------------------- start_temperature_flusher

\* A thread calls start_temperature_flusher.
StartCall(s) ==
    /\ starter[s].pc = "idle"
    /\ starter[s].calls < MaxStartCalls
    /\ starter' = [starter EXCEPT ![s] = [pc |-> "test", calls |-> @.calls + 1]]
    /\ UNCHANGED <<valkey_service, cache, cacheVer, lock, th, callCount, now,
                   minioEnv, objects, _temperature_records, nextId, flushSide,
                   _flusher_thread_started, _flusher_stop_event, flusher,
                   boot, fn>>

\* `if _flusher_thread_started: return`
StartTest(s) ==
    /\ starter[s].pc = "test"
    /\ starter' = [starter EXCEPT
                     ![s].pc = IF _flusher_thread_started THEN "idle" ELSE "set"]
    /\ UNCHANGED <<valkey_service, cache, cacheVer, lock, th, callCount, now,
                   minioEnv, objects, _temperature_records, nextId, flushSide,
                   _flusher_thread_started, _flusher_stop_event, flusher,
                   boot, fn>>

\* `_flusher_thread_started = True`
StartSet(s) ==
    /\ starter[s].pc = "set"
    /\ _flusher_thread_started' = TRUE
    /\ starter' = [starter EXCEPT ![s].pc = "spawn"]
    /\ UNCHANGED <<valkey_service, cache, cacheVer, lock, th, callCount, now,
                   minioEnv, objects, _temperature_records, nextId, flushSide,
                   _flusher_stop_event, flusher, boot, fn>>

\* `thread = threading.Thread(target=_temperature_flusher, ...); thread.start()`
StartThread(s) ==
    /\ starter[s].pc = "spawn"
    /\ flusher' = [flusher EXCEPT !.pc = "test", !.threads = @ + 1]
    /\ starter' = [starter EXCEPT ![s].pc = "idle"]
    /\ UNCHANGED <<valkey_service, cache, cacheVer, lock, th, callCount, now,
                   minioEnv, objects, _temperature_records, nextId, flushSide,
                   _flusher_thread_started, _flusher_stop_event, boot, fn>>

\* A fresh process: no flusher started, nobody calling.
InitStart ==
    /\ valkey_service = FALSE
    /\ cache = NoEntry
    /\ cacheVer = 0
    /\ lock = NoEntry
    /\ th = [t \in Threads |-> IdleThread]
    /\ callCount = 0
    /\ now = 0
    /\ minioEnv = FALSE
    /\ objects = {}
    /\ _temperature_records = <<>>
    /\ nextId = 0
    /\ _minio_service = FALSE
    /\ _records_lock = 0
    /\ wk = [w \in Workers |-> IdleWorker]
    /\ putLog = <<>>
    /\ ProcessIdle

NextStart ==
    \/ \E s \in Starters : StartCall(s)
    \/ \E s \in Starters : StartTest(s)
    \/ \E s \in Starters : StartSet(s)
    \/ \E s \in Starters : StartThread(s)

SpecStart == InitStart /\ [][NextStart]_vars

\* ------------------------------------------------- ensure_minio_ready_or_exit

max_retries == 12

retry_delay == 2

\* The MinIO environment at startup: variables missing; present but the client
\* cannot be built from them; MINIO_TIMEOUT not a number; valid.
MinioEnvKinds == {"missing", "unbuildable", "badtimeout", "valid"}

\* MinioService.from_env: None without a config or when from_config raises;
\* load_minio_config's float(MINIO_TIMEOUT) is outside the try.
from_env(config) ==
    CASE config = "valid" -> "service"
      [] config = "badtimeout" -> "ValueError"
      [] OTHER -> "None"

\* MinioService.ensure_bucket_or_raise.
ensure_bucket_or_raise(reachable, exists, create_bucket, made) ==
    IF ~reachable THEN "MinIO is not reachable"
    ELSE IF exists THEN "ok"
    ELSE IF create_bucket
         THEN IF made THEN "ok" ELSE "MinIO is not reachable"
         ELSE "MinIO bucket does not exist and createBucket is disabled"

\* A variant of the backoff that waits the same time after every attempt.
WaitTime_Constant(attempt) == retry_delay

\* `wait_time = retry_delay * attempt`
WaitTime(attempt) == retry_delay * attempt

\* The skip test on SKIP_MINIO_CHECK, PYTEST_CURRENT_TEST and sys.modules.
BootSkipTest ==
    /\ boot.pc = "start"
    /\ boot' = [boot EXCEPT !.pc = IF boot.skip THEN "returned" ELSE "from_env"]
    /\ UNCHANGED <<valkey_service, cache, cacheVer, lock, th, callCount, now,
                   minioEnv, objects, _temperature_records, nextId, flushSide,
                   _flusher_thread_started, _flusher_stop_event, flusher,
                   starter, fn>>

\* `minio_service = MinioService.from_env()`; None: sys.exit(1).
BootFromEnv ==
    /\ boot.pc = "from_env"
    /\ boot' = CASE from_env(boot.config) = "service" ->
                      [boot EXCEPT !.pc = "attempt", !.attempt = 1]
                 [] from_env(boot.config) = "None" ->
                      [boot EXCEPT !.pc = "exited", !.status = 1]
                 [] OTHER -> [boot EXCEPT !.pc = "raised"]
    /\ UNCHANGED <<valkey_service, cache, cacheVer, lock, th, callCount, now,
                   minioEnv, objects, _temperature_records, nextId, flushSide,
                   _flusher_thread_started, _flusher_stop_event, flusher,
                   starter, fn>>

\* One pass of the for loop up to the return, the sleep or the exit.
BootAttempt(reachable, exists, made) ==
    /\ boot.pc = "attempt"
    /\ LET res == ensure_bucket_or_raise(reachable, exists,
                                         boot.create_bucket, made)
       IN boot' = IF res = "ok"
                  THEN [boot EXCEPT !.pc = "returned", !.ensured = res]
                  ELSE IF boot.attempt < max_retries
                  THEN [boot EXCEPT !.pc = "sleep", !.ensured = res,
                                    !.wait_time = WaitTime(boot.attempt)]
                  ELSE [boot EXCEPT !.pc = "exited", !.ensured = res,
                                    !.status = 1]
    /\ UNCHANGED <<valkey_service, cache, cacheVer, lock, th, callCount, now,
                   minioEnv, objects, _temperature_records, nextId, flushSide,
                   _flusher_thread_started, _flusher_stop_event, flusher,
                   starter, fn>>

\* `time.sleep(wait_time)` and the loop's next value of attempt.
BootSleep ==
    /\ boot.pc = "sleep"
    /\ boot' = [boot EXCEPT !.pc = "attempt", !.attempt = @ + 1,
                            !.slept = @ + boot.wait_time, !.sleeps = @ + 1]
    /\ UNCHANGED <<valkey_service, cache, cacheVer, lock, th, callCount, now,
                   minioEnv, objects, _temperature_records, nextId, flushSide,
                   _flusher_thread_started, _flusher_stop_event, flusher,
                   starter, fn>>

\* create_app has just called ensure_minio_ready_or_exit.
InitBoot ==
    /\ valkey_service = FALSE
    /\ cache = NoEntry
    /\ cacheVer = 0
    /\ lock = NoEntry
    /\ th = [t \in Threads |-> IdleThread]
    /\ callCount = 0
    /\ now = 0
    /\ objects = {}
    /\ _temperature_records = <<>>
    /\ nextId = 0
    /\ _minio_service = FALSE
    /\ _records_lock = 0
    /\ wk = [w \in Workers |-> IdleWorker]
    /\ putLog = <<>>
    /\ _flusher_thread_started = FALSE
    /\ _flusher_stop_event = FALSE
    /\ flusher = NoFlusher
    /\ starter = [s \in Starters |-> IdleStarter]
    /\ fn = NoFn
    /\ \E skip, create_bucket \in BOOLEAN, config \in MinioEnvKinds :
         /\ boot = [NoBoot EXCEPT !.pc = "start", !.skip = skip,
                                  !.config = config,
                                  !.create_bucket = create_bucket]
         /\ minioEnv = (from_env(config) = "service")

NextBoot ==
    \/ BootSkipTest
    \/ BootFromEnv
    \/ \E reachable, exists, made \in BOOLEAN : BootAttempt(reachable, exists, made)
    \/ BootSleep

\* The starting thread keeps running: sleeps end and calls return.
SpecBoot == InitBoot /\ [][NextBoot]_vars /\ WF_vars(NextBoot)

\* --------------------------------------------------- put_temperature_records

\* The worker slot of a direct call of put_temperature_records.
PutCaller == 1

Stamps == 0..MaxStamp

\* The lists a call can be given: up to MaxBatch records with any timestamps,
\* in any order, numbered in list order.
Batches ==
    UNION { { [i \in 1..n |-> TemperatureRecord(i, 2000 + 100 * i, ts[i], <<1>>)] :
              ts \in [1..n -> Stamps] } : n \in 1..MaxBatch }

\* put_temperature_records(records) has been called on an empty bucket.
InitPut ==
    /\ valkey_service = FALSE
    /\ cache = NoEntry
    /\ cacheVer = 0
    /\ lock = NoEntry
    /\ th = [t \in Threads |-> IdleThread]
    /\ callCount = 0
    /\ now = 0
    /\ minioEnv = TRUE
    /\ objects = {}
    /\ _temperature_records = <<>>
    /\ nextId = 0
    /\ _minio_service = TRUE
    /\ _records_lock = 0
    /\ \E records \in Batches :
         wk = [w \in Workers |->
                 IF w = PutCaller
                 THEN [IdleWorker EXCEPT !.pc = "put", !.op = "put",
                                         !.batch = records]
                 ELSE IdleWorker]
    /\ putLog = <<>>
    /\ ProcessIdle

NextPut ==
    \/ \E ok \in BOOLEAN : FlushPut(PutCaller, ok)
    \/ ClockTick

SpecPut == InitPut /\ [][NextPut]_vars

\* ------------------------------------------------- the functions on their own

\* What one device can answer: a measurement of its own value with an age of
\* zero, of exactly one hour or a second more; a timeout; an HTTP error; a box
\* without a temperature sensor; a value float() rejects.
DeviceAnswers(d) ==
    { Reading("measurement", 1500 + 325 * d, a) : a \in {0, 3600, 3601} }
    \cup { Reading("timeout", 0, 0), Reading("http", 0, 0),
           Reading("missing", 0, 0), Reading("invalid", 0, 0) }

AnswerScenarios ==
    {scen \in [Devices -> UNION {DeviceAnswers(d) : d \in Devices}] :
        \A d \in Devices : scen[d] \in DeviceAnswers(d)}

\* Ages now - timestamp in whole seconds: around zero and around one hour.
Ages == (0 - AgeSpan .. AgeSpan) \cup (3600 - AgeSpan .. 3600 + AgeSpan)

\* Temperatures in hundredths of a degree: around both thresholds, and far
\* from them.
Temperatures ==
    {1000 + i : i \in 0 - TempSpan .. TempSpan}
    \cup {3600 + i : i \in 0 - TempSpan .. TempSpan}
    \cup {100 * i : i \in {-40, 0, 9, 10, 11, 22, 35, 36, 37, 60}}

CallAggregate(scen) ==
    /\ fn.op = ""
    /\ fn' = [NoFn EXCEPT !.op = "get_average_temperature_with_sources",
                          !.scen = scen,
                          !.agg = get_average_temperature_with_sources(scen)]
    /\ UNCHANGED <<valkey_service, cache, cacheVer, lock, th, callCount, now,
                   minioEnv, objects, _temperature_records, nextId, flushSide,
                   _flusher_thread_started, _flusher_stop_event, flusher,
                   starter, boot>>

CallAverage(scen) ==
    /\ fn.op = ""
    /\ fn' = [NoFn EXCEPT !.op = "get_average_temperature_for_fresh_data",
                          !.scen = scen,
                          !.avg = get_average_temperature_for_fresh_data(scen)]
    /\ UNCHANGED <<valkey_service, cache, cacheVer, lock, th, callCount, now,
                   minioEnv, objects, _temperature_records, nextId, flushSide,
                   _flusher_thread_started, _flusher_stop_event, flusher,
                   starter, boot>>

CallIsDataFresh(age) ==
    /\ fn.op = ""
    /\ fn' = [NoFn EXCEPT !.op = "is_data_fresh", !.age = age,
                          !.ok = is_data_fresh(age)]
    /\ UNCHANGED <<valkey_service, cache, cacheVer, lock, th, callCount, now,
                   minioEnv, objects, _temperature_records, nextId, flushSide,
                   _flusher_thread_started, _flusher_stop_event, flusher,
                   starter, boot>>

CallStatus(t) ==
    /\ fn.op = ""
    /\ fn' = [NoFn EXCEPT !.op = "get_temperature_status", !.t = t,
                          !.label = get_temperature_status(t)]
    /\ UNCHANGED <<valkey_service, cache, cacheVer, lock, th, callCount, now,
                   minioEnv, objects, _temperature_records, nextId, flushSide,
                   _flusher_thread_started, _flusher_stop_event, flusher,
                   starter, boot>>

InitPure ==
    /\ valkey_service = FALSE
    /\ cache = NoEntry
    /\ cacheVer = 0
    /\ lock = NoEntry
    /\ th = [t \in Threads |-> IdleThread]
    /\ callCount = 0
    /\ now = 0
    /\ minioEnv = FALSE
    /\ objects = {}
    /\ _temperature_records = <<>>
    /\ nextId = 0
    /\ _minio_service = FALSE
    /\ _records_lock = 0
    /\ wk = [w \in Workers |-> IdleWorker]
    /\ putLog = <<>>
    /\ ProcessIdle

NextPure ==
    \/ \E scen \in AnswerScenarios : CallAggregate(scen)
    \/ \E scen \in AnswerScenarios : CallAverage(scen)
    \/ \E age \in Ages : CallIsDataFresh(age)
    \/ \E t \in Temperatures : CallStatus(t)

SpecPure == InitPure /\ [][NextPure]_vars

\* ------------------------------------------- the aggregation loop, by steps

\* Significant bits of a float in this model (a Python float has 53).
FloatPrecision == 6

RECURSIVE BitLength(_)
BitLength(x) == IF x = 0 THEN 0 ELSE 1 + BitLength(x \div 2)

RECURSIVE Pow2(_)
Pow2(k) == IF k <= 0 THEN 1 ELSE 2 * Pow2(k - 1)

\* The unit in the last place of the floats of x's magnitude.
Ulp(x) == Pow2(BitLength(x) - FloatPrecision)

\* num/den rounded to FloatPrecision significant bits, ties to even (for
\* quotients of at least 2^FloatPrecision, which all values here give).
RoundRatio(num, den) ==
    LET unit == den * Ulp(num \div den)
        q == num \div unit
        r == num % unit
        up == IF 2 * r > unit THEN 1
              ELSE IF 2 * r < unit THEN 0
              ELSE q % 2
        m == q + up
    IN m * Ulp(num \div den)

\* float(value): the nearest float to the decimal the device reports.
Float(v) == RoundRatio(v, 1)

\* x + y of two floats.
FloatAdd(x, y) == RoundRatio(x + y, 1)

\* sum(temperatures) as the interpreter adds floats up to Python 3.11: from
\* left to right, each partial sum rounded.
RECURSIVE AddUp(_, _)
AddUp(acc, temps) ==
    IF temps = <<>> THEN acc ELSE AddUp(FloatAdd(acc, Head(temps)), Tail(temps))

\* A variant of FloatSum that leaves out the last temperature of the list.
FloatSum_DropLast(temps, compensated) ==
    AddUp(0, SubSeq(temps, 1, Len(temps) - 1))

\* sum(temperatures): from Python 3.12 on the sum of floats is compensated,
\* here the exact sum rounded once; before, the plain left-to-right sum.
FloatSum(temps, compensated) ==
    IF compensated THEN RoundRatio(SumSeq(temps), 1) ELSE AddUp(0, temps)

Floats(temps) == [i \in 1..Len(temps) |-> Float(temps[i])]

\* sum(temperatures) / len(temperatures) as the float it is.
FloatMean(temps, compensated) ==
    RoundRatio(FloatSum(Floats(temps), compensated), Len(temps))

\* A variant of Requests that repeats a failed request once.
Requests_Retry(box_id, r) ==
    IF get_sensebox_data(r) = NoData THEN <<box_id, box_id>> ELSE <<box_id>>

\* The requests.get calls one get_sensebox_data(box_id) makes: one, whatever
\* its outcome; an exception is caught and None returned.
Requests(box_id, r) == <<box_id>>

\* The id lists a caller can pass: SENSEBOX_IDS in any order, or none.
BoxIdLists ==
    {ids \in [1..NumSenseBoxes -> Devices] :
        \A i, j \in 1..NumSenseBoxes : i # j => ids[i] # ids[j]}
    \cup {<<>>}

\* get_average_temperature_with_sources(box_ids) is entered:
\* `selected_ids = box_ids or self.box_ids`, the two lists empty.
AggregateCall(box_ids, scen, compensated) ==
    /\ fn.op = ""
    /\ fn' = [NoFn EXCEPT !.op = "aggregating",
                          !.box_ids = IF box_ids = <<>> THEN SENSEBOX_IDS
                                      ELSE box_ids,
                          !.scen = scen, !.compensated = compensated]
    /\ UNCHANGED <<valkey_service, cache, cacheVer, lock, th, callCount, now,
                   minioEnv, objects, _temperature_records, nextId, flushSide,
                   _flusher_thread_started, _flusher_stop_event, flusher,
                   starter, boot>>

\* One pass of `for box_id in selected_ids:`; the fetch, and a fresh
\* measurement's value and id are appended.
AggregateFetch ==
    /\ fn.op = "aggregating"
    /\ fn.pos < Len(fn.box_ids)
    /\ LET box_id == fn.box_ids[fn.pos + 1]
           r == fn.scen[box_id]
       IN fn' = [fn EXCEPT
                   !.pos = @ + 1,
                   !.requests = @ \o Requests(box_id, r),
                   !.temperatures = IF Included(r) THEN Append(@, r.value) ELSE @,
                   !.used_ids = IF Included(r) THEN Append(@, box_id) ELSE @]
    /\ UNCHANGED <<valkey_service, cache, cacheVer, lock, th, callCount, now,
                   minioEnv, objects, _temperature_records, nextId, flushSide,
                   _flusher_thread_started, _flusher_stop_event, flusher,
                   starter, boot>>

\* After the loop: (None, []) without temperatures, else the mean and the ids.
AggregateReturn ==
    /\ fn.op = "aggregating"
    /\ fn.pos = Len(fn.box_ids)
    /\ fn' = [fn EXCEPT
                !.op = "get_average_temperature_with_sources",
                !.agg = IF fn.temperatures = <<>>
                        THEN <<NoAverage, <<>> >>
                        ELSE <<Mean(fn.temperatures), fn.used_ids>>,
                !.average = IF fn.temperatures = <<>> THEN 0
                            ELSE FloatMean(fn.temperatures, fn.compensated)]
    /\ UNCHANGED <<valkey_service, cache, cacheVer, lock, th, callCount, now,
                   minioEnv, objects, _temperature_records, nextId, flushSide,
                   _flusher_thread_started, _flusher_stop_event, flusher,
                   starter, boot>>

NextAggregate ==
    \/ \E box_ids \in BoxIdLists, scen \in AnswerScenarios, compensated \in BOOLEAN :
         AggregateCall(box_ids, scen, compensated)
    \/ AggregateFetch
    \/ AggregateReturn

SpecAggregate == InitPure /\ [][NextAggregate]_vars


\* ------------------------------------------------------------------- claims

Refreshing == {r \in Threads : th[r].pc \in {"refresh", "release"}}

Computing == {t \in Threads : th[t].pc = "compute"}

Calls == {th[t].cur : t \in Threads} \cup {th[t].prev : t \in Threads}

\* C1: at most one refresher at a time is between a successful acquire_lock
\* and its release_lock, whatever the interleaving of refreshers and of the
\* lock key's expiry.
C1_RefreshMutualExclusion == Cardinality(Refreshing) <= 1

\* C2: on a miss with a cache client, at most one reader at a time is inside
\* get_latest_temperature_response.
C2_NoStampedeOnMiss == valkey_service => Cardinality(Computing) <= 1

\* Two successive calls of one thread that both read the same valid entry
\* (no write of the cache key between the two reads).
SuccessiveHits(t) ==
    /\ th[t].prev.done /\ th[t].cur.done
    /\ th[t].prev.hit /\ th[t].cur.hit
    /\ th[t].prev.seenVer = th[t].cur.seenVer

AllInvoked(c) == c.invoked + c.asyncInvoked

\* C6 as stated: two successive calls within the entry's TTL with no
\* intervening cache write return the same response, and
\* get_latest_temperature_response is invoked at most once across both.
C6_AtMostOneInvocation ==
    \A t \in Threads :
        SuccessiveHits(t) =>
            /\ th[t].prev.result = th[t].cur.result
            /\ AllInvoked(th[t].prev) + AllInvoked(th[t].cur) <= 1

RefreshDue(c) == c.keyTtl >= 0 /\ c.keyTtl <= CACHE_REFRESH_THRESHOLD_SECONDS

\* C6 amended: the two calls return the same response, neither calling thread
\* invokes get_latest_temperature_response, and each call causes at most one
\* invocation, made by the refresh thread it starts, which it starts only on
\* a known remaining TTL at or below the threshold.
C6_SameResponseNoSyncInvocation ==
    \A t \in Threads :
        SuccessiveHits(t) =>
            /\ th[t].prev.result = th[t].cur.result
            /\ \A c \in {th[t].prev, th[t].cur} :
                 /\ c.invoked = 0
                 /\ c.asyncInvoked <= 1
                 /\ c.asyncInvoked = 1 => (c.spawned /\ RefreshDue(c))

C6_Witness ==
    \E t \in Threads :
        /\ SuccessiveHits(t)
        /\ ~th[t].prev.spawned
        /\ th[t].cur.asyncInvoked = 1

\* C7: a call that finds a valid payload returns the cached value, computes
\* nothing and writes nothing in the calling thread, and starts a refresh
\* thread iff the TTL query succeeded and the key's remaining TTL is known and
\* at most CACHE_REFRESH_THRESHOLD_SECONDS.
C7_HitReturnsCachedAndRefreshesAhead ==
    \A c \in Calls :
        (c.done /\ c.hit) =>
            /\ c.seen.kind = "valid"
            /\ c.result = TemperatureResponse(c.seen.resp.average_temperature,
                                              c.seen.resp.status,
                                              c.seen.resp.data_age_seconds)
            /\ c.invoked = 0
            /\ ~c.wrote
            /\ c.appended = 0
            /\ c.spawned <=> (~c.ttlFailed /\ RefreshDue(c))

C7_Witness ==
    \E t \in Threads :
        /\ th[t].prev.done /\ th[t].prev.hit /\ ~th[t].prev.spawned
        /\ th[t].prev.keyTtl > CACHE_REFRESH_THRESHOLD_SECONDS
        /\ th[t].cur.done /\ th[t].cur.hit /\ th[t].cur.spawned
        /\ \E r \in Threads : th[r].pc = "refresh" /\ th[r].parent = t

CacheFailed(c) == c.getFailed \/ c.ttlFailed \/ c.setFailed

\* C8 as stated: with the cache client absent or any cache operation (get,
\* ttl, set) failed, the call returns what its own computation returned,
\* having computed exactly once.
C8_DegradesToDirectComputation ==
    \A c \in Calls :
        (c.done /\ (~valkey_service \/ CacheFailed(c))) =>
            /\ c.invoked = 1
            /\ c.result = c.direct

\* C8 amended: with the cache client absent, or get or set failed, the call
\* returns what its own single computation returned (an exception only if the
\* computation raised it); when only the TTL query fails, on a hit, it returns
\* the cached value, computes nothing and starts no refresh.
C8_DegradesOrServesCached ==
    \A c \in Calls :
        /\ (c.done /\ (~valkey_service \/ c.getFailed \/ c.setFailed)) =>
              /\ c.invoked = 1
              /\ c.result = c.direct
        /\ (c.done /\ c.ttlFailed) =>
              /\ c.hit /\ ~c.getFailed
              /\ c.result.kind = "resp"
              /\ c.result.average_temperature = c.seen.resp.average_temperature
              /\ c.invoked = 0
              /\ ~c.spawned

C8_Witness ==
    \E t \in Threads :
        /\ th[t].prev.done /\ th[t].prev.getFailed /\ th[t].prev.invoked = 1
        /\ th[t].cur.done /\ th[t].cur.ttlFailed
        /\ RefreshDue(th[t].cur)

\* ---- claims about the flush worker, checked under SpecFlush

Flushing(w) == wk[w].op \in {"store", "loop"}

FlushReturned(w) == Flushing(w) /\ wk[w].done /\ ~wk[w].unconfigured

\* C3: with the store configured, the drain of a flush takes exactly the
\* buffered records in collection order and leaves the buffer empty, each put
\* hands the next record of that batch to the store, and the flush returns the
\* batch's length; every collect appends its record at the buffer's end; a flush
\* that finds the buffer empty returns 0 and hands nothing to the store.
C3_FlushCorrectness ==
    [][\A w \in Workers :
         /\ (wk[w].pc = "append" /\ wk'[w].pc # "append")
               => _temperature_records' = Append(_temperature_records, wk[w].record)
         /\ (wk[w].pc = "drain" /\ wk'[w].pc # "drain")
               => /\ _temperature_records' = <<>>
                  /\ objects' = objects /\ putLog' = putLog
                  /\ IF _temperature_records = <<>>
                     THEN /\ wk'[w].done /\ wk'[w].result = FlushResult(0, TRUE)
                          /\ wk'[w].idx = 0
                     ELSE wk'[w].batch = _temperature_records
         /\ (wk[w].pc = "put" /\ wk'[w] # wk[w])
               => putLog' = Append(putLog, wk[w].batch[wk[w].idx + 1].id)
         /\ (~wk[w].done /\ wk'[w].done /\ Flushing(w) /\ ~wk'[w].unconfigured)
               => /\ wk'[w].idx = Len(wk'[w].batch)
                  /\ wk'[w].result = FlushResult(Len(wk'[w].batch), TRUE)
    ]_vars

\* Two records were collected, one flush handed both in order and returned 2.
C3_Witness ==
    \E w \in Workers :
        /\ FlushReturned(w)
        /\ wk[w].result = FlushResult(2, TRUE)
        /\ putLog = <<1, 2>>
        /\ _temperature_records = <<>>

\* C4: no record is handed to the store twice, whatever the interleaving of
\* collects, the loop's flushes and on-demand flushes, and a flush that finds the
\* buffer already drained hands nothing to the store and returns count 0.
C4_NoDoubleFlush ==
    /\ \A i, j \in 1..Len(putLog) : i # j => putLog[i] # putLog[j]
    /\ \A w, v \in Workers :
          (w # v /\ Flushing(w) /\ Flushing(v)) =>
             \A i \in 1..Len(wk[w].batch), j \in 1..Len(wk[v].batch) :
                wk[w].batch[i].id # wk[v].batch[j].id
    /\ \A w \in Workers :
          wk[w].sawEmpty => /\ wk[w].idx = 0 /\ wk[w].batch = <<>>
                            /\ wk[w].result = FlushResult(0, TRUE)

\* An on-demand flush and the loop's flush overlap: one has drained the buffer
\* and is still writing, the other found the buffer empty.
C4_Witness ==
    \E w, v \in Workers :
        /\ wk[w].op = "store" /\ wk[w].sawEmpty /\ wk[w].done
        /\ wk[v].op = "loop" /\ wk[v].pc = "put" /\ wk[v].idx >= 1
        /\ Len(wk[v].batch) = 2

\* C5: a read grows the buffer by one record exactly when it was served by a
\* live aggregation; a read served from the durable-fallback record leaves the
\* buffer as it was.
C5_BuffersOnlyLiveData ==
    \A w \in Workers :
        (wk[w].op = "temperature" /\ wk[w].done) =>
           (wk[w].appended = 1 <=> wk[w].served = "live")

\* C9: a flush that finds no MinIO configuration returns (0, False) and leaves
\* the buffer as it was, and POST /store answers 503; a POST /store whose flush
\* reports success answers 200 with the count the flush returned.
C9_UnconfiguredFlush ==
    [][\A w \in Workers :
         /\ (wk[w].pc = "init" /\ wk'[w] # wk[w] /\ ~minioEnv /\ ~_minio_service)
               => /\ wk'[w].done
                  /\ wk'[w].result = FlushResult(0, FALSE)
                  /\ _temperature_records' = _temperature_records
                  /\ objects' = objects /\ putLog' = putLog
                  /\ wk[w].op = "store" => wk'[w].http.status = 503
         /\ (wk'[w].op = "store" /\ wk'[w].done /\ wk'[w].result.ok)
               => wk'[w].http = Http(200, "flushed", wk'[w].result.count, "")
    ]_vars

\* POST /store has answered 503 while a collected record stays buffered.
C9_Witness ==
    \E w \in Workers :
        /\ wk[w].op = "store" /\ wk[w].done /\ wk[w].unconfigured
        /\ wk[w].http.status = 503
        /\ Len(_temperature_records) >= 1

\* C10: a flush during which a write to the store failed reports ok = False.
C10_FailedFlushReportedUnsuccessful ==
    \A w \in Workers :
        (Flushing(w) /\ wk[w].done /\ wk[w].putFailed) => ~wk[w].result.ok

\* ---- claims about single calls, checked under SpecCalls

\* C11: get_latest_temperature_response returns a response built from the live
\* aggregate whenever one is present, otherwise one built from the latest
\* durable record, and None iff the live aggregate is absent and the store is
\* unconfigured or yields no latest record.
C11_LiveThenDurableFallback ==
    fn.op = "get_latest_temperature_response" =>
        LET live == get_average_temperature_for_fresh_data(fn.scen)
            latest == get_latest_record(objects, fn.listOk, fn.getOk)
            stored == minioEnv /\ latest \notin {NoRecord, RecordError}
        IN /\ live.present =>
                /\ fn.resp.kind = "resp"
                /\ fn.resp.average_temperature = Round2(live)
           /\ (~live.present /\ stored) =>
                /\ fn.resp.kind = "resp"
                /\ fn.resp.average_temperature = latest.average_temperature
           /\ fn.resp.kind = "none" <=>
                (~live.present /\ (~minioEnv \/ latest = NoRecord))

\* ---- claims about GET /temperature, checked under SpecRoutes

\* C12: whatever the devices' outcomes and the bucket's contents, GET
\* /temperature answers 200 with the rounded average and its status when live or
\* durable data exists, and 503 "No temperature data available" otherwise; no
\* other status and no exception.
C12_TemperatureAnswers200Or503 ==
    \A w \in Workers :
        (wk[w].op = "temperature" /\ wk[w].done) =>
            /\ wk[w].http.status \in {200, 503}
            /\ wk[w].http.status = 200 =>
                  /\ wk[w].served \in {"live", "fallback"}
                  /\ wk[w].http.value = wk[w].record.average_temperature
                  /\ wk[w].http.label = get_temperature_status(wk[w].http.value)
            /\ wk[w].http.status = 503 =>
                  /\ wk[w].served = "none"
                  /\ wk[w].http.label = "No temperature data available"

\* ---- claims about /readyz, checked under SpecCalls

\* C13: GET /readyz answers 503 "not_ready" iff more than total // 2 devices
\* are inaccessible and the cache age is known and above 300 seconds; in every
\* other case, an unknown cache age included, it answers 200 "ready".
C13_ReadinessRule ==
    fn.op = "GET /readyz" =>
        LET inaccessible == NumSenseBoxes - fn.accessible
            not_ready == /\ inaccessible > NumSenseBoxes \div 2
                         /\ fn.age # NoAge
                         /\ fn.age > CACHE_MAX_AGE_MINUTES * 60
        IN IF not_ready
           THEN fn.http.status = 503 /\ fn.http.label = "not_ready"
           ELSE fn.http.status = 200 /\ fn.http.label = "ready"

\* C14: get_cache_age_seconds returns None without a cache client, when the
\* TTL query fails, and when the key is absent or has no expiry; otherwise it
\* returns CACHE_TTL_SECONDS minus the key's remaining TTL, and 0 where that
\* difference is negative.
C14_CacheAge ==
    fn.op = "get_cache_age_seconds" =>
        IF ~valkey_service \/ ~fn.ok \/ ~cache.present \/ cache.ttl = NoExpiry
        THEN fn.age = NoAge
        ELSE /\ fn.age >= 0
             /\ fn.age >= CACHE_TTL_SECONDS - cache.ttl
             /\ fn.age \in {0, CACHE_TTL_SECONDS - cache.ttl}

\* The age of a key with more than CACHE_TTL_SECONDS left was asked and is 0.
C14_Witness ==
    /\ fn.op = "get_cache_age_seconds"
    /\ valkey_service /\ fn.ok
    /\ cache.present /\ cache.ttl > CACHE_TTL_SECONDS
    /\ fn.age = 0

LoopEnters(pc) == flusher'.pc = pc /\ flusher.pc # pc

\* C15 as stated: a flush of the background loop never begins while the stop
\* event is set (once the event is set the loop exits without a further flush).
C15_NoFlushOnceStopIsSet ==
    [][LoopEnters("flush") => ~_flusher_stop_event]_vars

\* C15 (amended): the background loop alternates a wait of
\* FLUSH_INTERVAL_SECONDS and a flush: a flush begins only after a wait that
\* timed out with the stop event unset, so never before a full interval has
\* passed since the start or the previous flush; the loop terminates only at
\* its while test or in its wait, and only with the stop event set, and from
\* there it exits without a further flush.
C15_FlusherLoopLifecycle ==
    [][/\ LoopEnters("wait") => flusher.pc = "test" /\ ~_flusher_stop_event
       /\ LoopEnters("woken") =>
            /\ flusher.pc = "wait"
            /\ ~_flusher_stop_event
            /\ flusher.waited >= FLUSH_INTERVAL_SECONDS
       /\ LoopEnters("flush") =>
            /\ flusher.pc = "woken"
            /\ flusher.waited >= FLUSH_INTERVAL_SECONDS
            /\ flusher.sinceFlush >= FLUSH_INTERVAL_SECONDS
       /\ LoopEnters("test") => flusher.pc = "flush" /\ wk[LoopWorker].done
       /\ LoopEnters("exited") =>
            /\ flusher.pc \in {"test", "wait"}
            /\ _flusher_stop_event
       /\ (flusher.pc \in {"test", "wait"} /\ _flusher_stop_event) =>
            flusher'.pc \in {flusher.pc, "exited"}
       /\ flusher.pc = "exited" => flusher'.pc = "exited"
       /\ (wk[LoopWorker].pc = "idle" /\ wk'[LoopWorker].pc # "idle") =>
            flusher.pc = "woken" /\ flusher'.pc = "flush"
      ]_vars

\* The loop has flushed a collected record, waited again and exited on the
\* stop event.
C15_Witness ==
    /\ flusher.pc = "exited"
    /\ _flusher_stop_event
    /\ wk[LoopWorker].done /\ wk[LoopWorker].op = "loop"
    /\ wk[LoopWorker].result.count > 0
    /\ flusher.sinceFlush >= FLUSH_INTERVAL_SECONDS

InBuffer(id) == \E i \in 1..Len(_temperature_records) : _temperature_records[i].id = id

Handed(id) == \E i \in 1..Len(putLog) : putLog[i] = id

\* C16: with MinIO configured and the flusher loop running under fair
\* scheduling, every record appended to the buffer is eventually removed from
\* it and handed to put_temperature_record, unless the stop event is set,
\* however the appends interleave with flushes.
C16_EventualDrain ==
    \A id \in 1..MaxRecords :
        InBuffer(id) ~> ((Handed(id) /\ ~InBuffer(id)) \/ _flusher_stop_event)

\* The loop's own flush has handed over a record that was appended while
\* another flush was draining, with no stop signal.
C16_Witness ==
    /\ ~_flusher_stop_event
    /\ minioEnv
    /\ wk[LoopWorker].op = "loop" /\ wk[LoopWorker].done
    /\ wk[LoopWorker].result.count > 0
    /\ \E w \in Requesters : wk[w].op = "store" /\ wk[w].result.count > 0
    /\ \A id \in 1..MaxRecords : Handed(id) /\ ~InBuffer(id)

Returned(s) == starter[s].pc = "idle" /\ starter[s].calls > 0

\* C17: whatever calls of start_temperature_flusher have been made, from one
\* thread or several, at most one flusher thread has been started, and once a
\* call has returned exactly one has.
C17_SingleFlusher ==
    /\ flusher.threads <= 1
    /\ (\E s \in Starters : Returned(s)) => flusher.threads = 1

BootEnded == boot.pc \in {"returned", "exited", "raised"}

\* Every step of the startup check follows the retry schedule.
BootSchedule ==
    /\ boot.pc = "from_env" =>
         /\ boot.config = "missing" => boot'.pc = "exited" /\ boot'.status = 1
         /\ boot'.pc = "attempt" => boot'.attempt = 1
         /\ boot'.pc = "raised" => boot.config = "badtimeout"
    /\ boot.pc = "attempt" =>
         /\ boot'.attempt = boot.attempt
         /\ boot'.ensured = "ok" => boot'.pc = "returned"
         /\ (boot'.ensured # "ok" /\ boot.attempt < 12) =>
              boot'.pc = "sleep" /\ boot'.wait_time = 2 * boot.attempt
         /\ (boot'.ensured # "ok" /\ boot.attempt = 12) =>
              /\ boot'.pc = "exited" /\ boot'.status = 1
              /\ boot'.sleeps = boot.sleeps /\ boot'.slept = boot.slept
    /\ boot.pc = "sleep" =>
         /\ boot'.pc = "attempt" /\ boot'.attempt = boot.attempt + 1
         /\ boot'.slept = boot.slept + boot.wait_time
    /\ BootEnded => boot' = boot

\* C18: when not skipped, ensure_minio_ready_or_exit terminates; with the
\* MinIO configuration missing it exits with status 1 before any attempt;
\* otherwise it makes at most 12 attempts, returns on the first that succeeds,
\* waits 2*k seconds after failed attempt k < 12 and exits with status 1 after
\* the 12th failure without a further wait (11 waits, 132 seconds in all).
C18_StartupCheckTerminates ==
    /\ <>BootEnded
    /\ [][BootSchedule]_vars
    /\ [](/\ boot.attempt <= 12
          /\ boot.sleeps = (IF boot.pc = "sleep" THEN boot.attempt - 1
                            ELSE IF boot.attempt = 0 THEN 0
                            ELSE boot.attempt - 1)
          /\ (boot.pc = "exited" /\ boot.attempt > 0) =>
               /\ boot.attempt = 12 /\ boot.sleeps = 11 /\ boot.slept = 132
               /\ boot.status = 1
          /\ (boot.pc = "exited" /\ boot.attempt = 0) =>
               /\ boot.config \in {"missing", "unbuildable"}
               /\ boot.slept = 0 /\ boot.status = 1
          /\ boot.pc = "returned" =>
               \/ boot.skip /\ boot.attempt = 0
               \/ ~boot.skip /\ boot.ensured = "ok" /\ boot.status = 0)

\* The startup probe of MinIO has given up after twelve failed attempts and eleven waits.
C18_Witness ==
    /\ boot.pc = "exited" /\ ~boot.skip
    /\ boot.attempt = 12 /\ boot.sleeps = 11 /\ boot.slept = 132
    /\ boot.status = 1

Malformed == {"noavg", "nostatus", "badavg", "nonobject"}

\* C19: a call that read a malformed value under the cache key (JSON that is
\* not an object, or an object without a numeric average_temperature or a
\* status) does not raise from deserialization: it is a miss and the aggregate
\* is invoked synchronously, once.
C19_MalformedPayloadIsAMiss ==
    \A t \in Threads :
        (th[t].cur.done /\ th[t].cur.seen.kind \in Malformed) =>
            /\ th[t].cur.result # Raise("AttributeError")
            /\ ~th[t].cur.hit
            /\ th[t].cur.invoked = 1

Newest(o, objs) ==
    \A p \in objs :
        \/ p.last_modified < o.last_modified
        \/ p.last_modified = o.last_modified /\ p.key <= o.key

\* C20: when the listing and the fetch succeed on a non-empty set of record
\* objects, get_latest_record returns the record of the object with the
\* greatest last-modified time and, among those of equal last-modified time,
\* the greatest key.
C20_LatestRecordSelection ==
    ( /\ fn.op = "get_latest_record"
      /\ fn.listOk /\ fn.getOk
      /\ objects # {}
      /\ \A o \in objects : o.body = "record" ) =>
        \E o \in objects : Newest(o, objects) /\ fn.rec = o.record

\* C21: get_latest_record never raises: whatever fails while listing,
\* selecting, fetching or parsing the latest object, including a body that is
\* valid JSON without a usable timestamp or average_temperature, the call
\* returns None or a record.
C21_LatestRecordNeverRaises ==
    fn.op = "get_latest_record" => fn.rec # RecordError

Second(ts) == ts \div TicksPerSecond

Put == wk[PutCaller]

\* The records of the call's list handed to the store so far.
Written == {Put.batch[i] : i \in 1..Put.idx}

\* C22: each put writes one object under a key that is the record's timestamp
\* cut to whole seconds, replacing the object a record of the same second left
\* there, or writes nothing when the store fails; so when every put of a list
\* has succeeded the bucket holds one object per distinct second of the list,
\* each with the last record of its second.
C22_ObjectKeyAndCollision ==
    /\ [][Put'.idx = Put.idx + 1 =>
            LET rec == Put.batch[Put.idx + 1]
                others == {o \in objects : o.key # Second(rec.timestamp)}
            IN \/ objects' = objects /\ Put'.putFailed
               \/ /\ objects' = others \cup {Object(Second(rec.timestamp), rec, now)}
                  /\ Put'.putFailed = Put.putFailed]_vars
    /\ [](~Put.putFailed =>
            /\ Cardinality(objects) =
                 Cardinality({Second(r.timestamp) : r \in Written})
            /\ \A o \in objects :
                 /\ o.key = Second(o.record.timestamp)
                 /\ o.record \in Written
                 /\ \A r \in Written :
                      Second(r.timestamp) = o.key => r.id <= o.record.id)

\* Three records, two of them in the same second, were all written: two
\* objects remain, the first record's replaced by the second's.
C22_Witness ==
    /\ Put.done /\ ~Put.putFailed /\ Put.idx = 3
    /\ Put.batch[1].timestamp # Put.batch[2].timestamp
    /\ Second(Put.batch[1].timestamp) = Second(Put.batch[2].timestamp)
    /\ Second(Put.batch[3].timestamp) # Second(Put.batch[1].timestamp)
    /\ Cardinality(objects) = 2
    /\ \A o \in objects : o.record.id \in {2, 3}

\* The devices whose answer is a measurement at most one hour old.
FreshDevices(scen) ==
    {d \in Devices : scen[d].kind = "measurement" /\ scen[d].age <= 3600}

RECURSIVE SumOver(_, _)
SumOver(S, scen) ==
    IF S = {} THEN 0
    ELSE LET d == CHOOSE x \in S : TRUE
         IN scen[d].value + SumOver(S \ {d}, scen)

IdsOf(ids) == {ids[i] : i \in 1..Len(ids)}

C24_AggregateInvariant ==
    fn.op = "get_average_temperature_with_sources" =>
        /\ (fn.agg[2] # <<>>) <=> fn.agg[1].present
        /\ FreshDevices(fn.scen) = {} =>
             /\ Len(fn.agg) = 3
             /\ fn.agg[1] = NoAverage /\ fn.agg[2] = <<>> /\ fn.agg[3] = NoAge

Least2(S) == CHOOSE a \in S : \A b \in S : a <= b

\* C25: the aggregation returns a third component, the newest observation
\* time of the measurements in the average (here the least of their ages),
\* absent when none is included.
C25_NewestTimestamp ==
    fn.op = "get_average_temperature_with_sources" =>
        /\ Len(fn.agg) = 3
        /\ fn.agg[3] = (IF FreshDevices(fn.scen) = {} THEN NoAge
                        ELSE Least2({fn.scen[d].age : d \in FreshDevices(fn.scen)}))

\* C26: is_data_fresh is True exactly for ages of at most 3600 seconds.
C26_FreshnessBoundary ==
    fn.op = "is_data_fresh" => (fn.ok <=> fn.age <= 3600)

\* A measurement exactly one hour old is fresh.
C26_Witness ==
    fn.op = "is_data_fresh" /\ fn.age = 3600 /\ fn.ok

\* C27: get_temperature_status is "Too Cold" exactly below 10, "Good" exactly
\* from 10 to 36 inclusive and "Too Hot" exactly above 36 (temperatures in
\* hundredths of a degree), so each temperature has one label.
C27_StatusMapping ==
    fn.op = "get_temperature_status" =>
        /\ fn.label \in {"Too Cold", "Good", "Too Hot"}
        /\ fn.label = "Too Cold" <=> fn.t < 1000
        /\ fn.label = "Good" <=> (1000 <= fn.t /\ fn.t <= 3600)
        /\ fn.label = "Too Hot" <=> fn.t > 3600

\* 36 degrees is "Good".
C27_Witness ==
    fn.op = "get_temperature_status" /\ fn.t = 3600 /\ fn.label = "Good"

\* C28: a refresher that acquired the lock goes through release_lock exactly
\* once however its recomputation ends: from the try block it always reaches
\* the finally block, there it issues the one delete and returns; a refresher
\* whose acquire_lock returned False returns with no recomputation, no cache
\* write and no release.
C28_LockReleaseDiscipline ==
    [][\A r \in Threads :
         /\ (th[r].pc = "refresh" /\ th'[r].pc # "refresh") => th'[r].pc = "release"
         /\ (th[r].pc = "release" /\ th'[r].pc # "release") =>
              /\ th'[r].pc = "idle"
              /\ lock' \in {NoEntry, lock}
              /\ cache' = cache
         /\ (th[r].pc # "release" /\ th'[r].pc = "release") => th[r].pc = "refresh"
         /\ (th[r].pc # "refresh" /\ th'[r].pc = "refresh") =>
              /\ th[r].pc = "acquire"
              /\ ~lock.present /\ lock' = LockKey(r)
         /\ (th[r].pc = "acquire" /\ th'[r].pc = "idle") =>
              /\ lock' = lock /\ cache' = cache /\ cacheVer' = cacheVer
              /\ _temperature_records' = _temperature_records
              /\ \A p \in Threads :
                   /\ th'[p].cur.asyncInvoked = th[p].cur.asyncInvoked
                   /\ th'[p].prev.asyncInvoked = th[p].prev.asyncInvoked
      ]_vars

\* The refresh a call started took the lock, recomputed (the recomputation
\* raised), released the lock and returned.
C28_Witness ==
    \E p, r \in Threads :
        /\ th[r].pc = "idle"
        /\ th[r].parent = p /\ th[r].parentCall = th[p].callNo
        /\ th[p].cur.spawned /\ th[p].cur.asyncInvoked = 1
        /\ ~lock.present
        /\ cacheVer = 0

Dead == {r \in Threads : th[r].pc = "dead"}

\* C29: the lock key always carries a TTL of at most LOCK_TTL_SECONDS, so a
\* lock whose holder died before releasing it, like any lock, is eventually
\* free again: the lock is never held forever.
C29_LockDeadlockFreedom ==
    /\ [](lock.present => lock.ttl \in 1..LOCK_TTL_SECONDS)
    /\ (lock.present /\ Dead # {}) ~> ~lock.present
    /\ lock.present ~> ~lock.present

\* A refresher died holding the lock; the key expired and another refresher
\* has acquired the lock since.
C29_Witness ==
    \E r, q \in Threads :
        /\ th[r].pc = "dead"
        /\ th[q].pc = "refresh"
        /\ lock = LockKey(q)

\* C30: a release_lock that removes the lock key is executed by the refresher
\* whose acquire_lock created that key; a refresher whose own key expired
\* never deletes the key another refresher has set since.
C30_ReleaseByHolderOnly ==
    [][\A r \in Threads :
         (th[r].pc = "release" /\ th'[r].pc = "idle"
            /\ lock.present /\ ~lock'.present) => lock.by = r]_vars

\* ---- claims about the buffer lock and the records' path, checked under SpecFlush

\* The worker inside a `with _records_lock:` block, if any.
LockHolders == {w \in Workers : wk[w].pc \in {"drain", "append"}}

\* C31: a worker inside the lazy MinioService.from_env() or inside
\* put_temperature_records never holds _records_lock; the lock is held exactly
\* by the worker inside the append of collect or the copy-and-clear of flush;
\* so a collect waiting for the lock waits for such a worker only, never for a
\* write to the store.
C31_NoIOUnderBufferLock ==
    /\ \A w \in Workers : wk[w].pc \in {"init", "put"} => _records_lock # w
    /\ _records_lock # 0 => LockHolders = {_records_lock}
    /\ _records_lock = 0 => LockHolders = {}
    /\ \A w \in Workers :
         (wk[w].pc = "collect" /\ ~ENABLED TemperatureLock(w)) =>
            \E v \in Workers \ {w} : _records_lock = v /\ wk[v].pc \in {"drain", "append"}

\* While a flush is writing its batch to the store, a collect has taken the
\* lock and is appending.
C31_Witness ==
    \E w, v \in Workers :
        /\ wk[v].pc = "put" /\ Flushing(v)
        /\ wk[w].pc = "append" /\ _records_lock = w

\* The ids of the records collect has appended to the buffer so far: those
\* built, less the ones whose collect has not appended yet.
CollectedIds ==
    {i \in 1..nextId :
        ~\E w \in Workers : wk[w].pc \in {"collect", "append"} /\ wk[w].record.id = i}

\* The records of w's drained batch not yet handed to the store.
Remaining(w) ==
    IF wk[w].pc = "put"
    THEN {i \in (wk[w].idx + 1)..Len(wk[w].batch) : TRUE}
    ELSE {}

\* How many times record id occurs in the buffer, and in the batches drained
\* so far (the part handed to the store and the parts still to be handed).
InBufferCount(id) ==
    Cardinality({i \in 1..Len(_temperature_records) : _temperature_records[i].id = id})

DrainedCount(id) ==
    Cardinality({i \in 1..Len(putLog) : putLog[i] = id})
    + Cardinality({p \in Workers \X (1..MaxRecords + 1) :
                      p[2] \in Remaining(p[1]) /\ wk[p[1]].batch[p[2]].id = id})

\* C32: under every interleaving of collects and flushes, each record collected
\* so far is exactly once either in the buffer or in one drained batch, and
\* nothing else is in either: the collected records are the buffer plus the
\* drained batches, which share no record.
C32_NoRecordLostOrDuplicated ==
    \A id \in 1..(MaxRecords + 1) :
        InBufferCount(id) + DrainedCount(id) = (IF id \in CollectedIds THEN 1 ELSE 0)

\* A flush has drained the first record and is writing it while the second
\* record has been collected into the buffer.
C32_Witness ==
    \E w \in Workers :
        /\ wk[w].pc = "put" /\ wk[w].batch[1].id = 1 /\ Len(wk[w].batch) = 1
        /\ Len(_temperature_records) = 1 /\ _temperature_records[1].id = 2
        /\ CollectedIds = {1, 2}

\* C33: when a flush has returned, every record of its batch is either stored
\* (an object exists under its key) or back in the buffer for a later flush:
\* no flush removes from the buffer a record whose write failed.
C33_AtLeastOncePersistence ==
    \A w \in Workers :
        (Flushing(w) /\ wk[w].done) =>
            \A i \in 1..Len(wk[w].batch) :
                \/ InBuffer(wk[w].batch[i].id)
                \/ \E o \in objects : o.key = ObjectName(wk[w].batch[i])

\* No flush has copied and cleared the buffer yet.
NoDrainYet == putLog = <<>> /\ \A w \in Workers : wk[w].pc # "put"

BufferIds == {_temperature_records[i].id : i \in 1..Len(_temperature_records)}

\* C34: a flush that finds no MinIO configuration returns (0, False) and
\* leaves the buffer and the store as they were, however often it is called,
\* so until the first drain the buffer holds every record collected; the
\* first drain, which happens only once the configuration is there, takes all
\* of them in collection order, and its flush returns their number.
C34_RetentionAcrossUnconfiguredFlushes ==
    /\ [][\A w \in Workers :
            /\ (wk[w].pc = "init" /\ wk'[w].pc = "idle") =>
                  /\ ~minioEnv /\ ~_minio_service'
                  /\ wk'[w].result = FlushResult(0, FALSE)
                  /\ _temperature_records' = _temperature_records
                  /\ objects' = objects /\ putLog' = putLog
            /\ (NoDrainYet /\ wk[w].pc = "drain" /\ wk'[w].pc = "put") =>
                  /\ minioEnv /\ _minio_service
                  /\ wk'[w].batch = _temperature_records
                  /\ {wk'[w].batch[i].id : i \in 1..Len(wk'[w].batch)} = CollectedIds
                  /\ Len(wk'[w].batch) = Cardinality(CollectedIds)
            /\ (wk[w].pc = "put" /\ wk'[w].pc = "idle") =>
                  wk'[w].result = FlushResult(Len(wk[w].batch), TRUE)
       ]_vars
    /\ [](~_minio_service => NoDrainYet)
    /\ [](NoDrainYet => /\ BufferIds = CollectedIds
                        /\ Len(_temperature_records) = Cardinality(CollectedIds))

\* A flush has returned (0, False); the configuration appeared; a later flush
\* handed both collected records to the store and returned 2.
C34_Witness ==
    \E w, v \in Workers :
        /\ Flushing(w) /\ wk[w].done /\ wk[w].unconfigured
        /\ wk[w].result = FlushResult(0, FALSE)
        /\ Flushing(v) /\ wk[v].done /\ wk[v].result = FlushResult(2, TRUE)
        /\ putLog = <<1, 2>>
        /\ _temperature_records = <<>>

\* ---- claims about the cache entry, checked under Spec

\* Thread t leaves get_latest_temperature_response in this step.
Computes(t) == th[t].pc \in {"compute", "refresh"} /\ th'[t].pc # th[t].pc

\* C35: the entry under the cache key changes in two ways only: a thread
\* leaving its recomputation with a response writes it with the full TTL
\* CACHE_TTL_SECONDS, or time passes, which lowers the TTL and removes the
\* entry only once its TTL has run out; nothing deletes it, and a
\* recomputation that gives no response leaves the entry and its TTL as they
\* were.
C35_CacheEntryFrame ==
    [][/\ cache' # cache =>
            \/ /\ \E t \in Threads : Computes(t)
               /\ cacheVer' = cacheVer + 1
               /\ cache'.present
               /\ cache'.payload.kind = "valid"
               /\ cache'.ttl = CACHE_TTL_SECONDS
            \/ /\ th' = th /\ cacheVer' = cacheVer
               /\ cache.present /\ cache.ttl # NoExpiry
               /\ IF cache'.present
                  THEN /\ cache'.payload = cache.payload
                       /\ cache'.ttl = cache.ttl - TickSeconds
                       /\ cache'.ttl >= 1
                  ELSE cache.ttl <= TickSeconds
       /\ \A t \in Threads :
            (th[t].pc = "compute" /\ th'[t].pc # "compute"
                /\ th'[t].cur.result.kind # "resp") => cache' = cache
       /\ \A t \in Threads :
            (th[t].pc \in {"acquire", "release", "get", "ttl"}
                /\ th'[t].pc # th[t].pc) => cache' = cache
      ]_vars

\* A call found an entry it could not use, recomputed without getting a
\* response, and the entry is still there with what time has left of its TTL.
C35_Witness ==
    \E t \in Threads :
        /\ th[t].cur.done /\ ~th[t].cur.hit /\ th[t].cur.invoked = 1
        /\ th[t].cur.result.kind # "resp"
        /\ th[t].cur.seen = Payload("noavg", NoneResult)
        /\ cache = Entry(Payload("noavg", NoneResult),
                         CACHE_TTL_SECONDS - TickSeconds)

\* ---- claims about readiness, checked under SpecCalls

\* The entry is absent or carries what is left of a TTL of CACHE_TTL_SECONDS,
\* the only TTL this program writes the cache key with.
WrittenByProgram(entry) ==
    entry.present => (entry.ttl # NoExpiry /\ entry.ttl \in 0..CACHE_TTL_SECONDS)

\* C36: while the cache entry is one this program wrote, get_cache_age_seconds
\* returns None or a value in 0..CACHE_TTL_SECONDS, which is never above the
\* staleness threshold of CACHE_MAX_AGE_MINUTES minutes; so with that age the
\* readiness rule gives 200 for every number of accessible devices, and
\* GET /readyz never answers 503.
C36_CacheAgeBoundedByTtl ==
    (fn.op \in {"get_cache_age_seconds", "GET /readyz"} /\ WrittenByProgram(cache)) =>
        /\ fn.age = NoAge \/ fn.age \in 0..CACHE_TTL_SECONDS
        /\ fn.age # NoAge => fn.age <= CACHE_MAX_AGE_MINUTES * 60
        /\ \A accessible \in 0..NumSenseBoxes :
              Readiness(accessible, NumSenseBoxes, fn.age).status = 200
        /\ fn.op = "GET /readyz" => fn.http.status # 503

\* GET /readyz with no device accessible and a cache entry written 25 seconds
\* ago: the age is 25 and the answer is not 503.
C36_Witness ==
    /\ fn.op = "GET /readyz" /\ fn.accessible = 0
    /\ valkey_service /\ fn.ok
    /\ cache.present /\ cache.ttl = 35 /\ fn.age = 25
    /\ Readiness(0, NumSenseBoxes, fn.age).status = 200
    /\ fn.http.status # 503

\* ---- claims about the aggregation loop, checked under SpecAggregate

\* How often device d was requested in the call so far.
RequestCount(d) ==
    Cardinality({i \in 1..Len(fn.requests) : fn.requests[i] = d})

ListedUsed == FreshIds(fn.scen, SENSEBOX_IDS)

ListedTemperatures == [i \in 1..Len(ListedUsed) |-> fn.scen[ListedUsed[i]].value]

ListedAverage ==
    IF ListedTemperatures = <<>> THEN 0
    ELSE FloatMean(ListedTemperatures, fn.compensated)

Occurrences(seq, v) == Cardinality({i \in 1..Len(seq) : seq[i] = v})

Distance(x, y) == IF x >= y THEN x - y ELSE y - x

\* C39 as stated: whatever the order of the id list, the call returns the
\* same set of source ids and the same average as for the listed order.
C39_OrderIndependence ==
    fn.op = "get_average_temperature_with_sources" =>
        /\ IdsOf(fn.agg[2]) = IdsOf(ListedUsed)
        /\ fn.agg[1].present <=> ListedTemperatures # <<>>
        /\ fn.average = ListedAverage

\* C39, amended: whatever the order of the id list, the call returns the same
\* set of source ids and averages the same temperatures, so the exact mean is
\* the same; the float returned is the same where the sum is compensated, and
\* where the floats are added in list order it is within a few units in the
\* last place (one per device and one for the division) of the one for the
\* listed order.
C39_OrderIndependentUpToRounding ==
    fn.op = "get_average_temperature_with_sources" =>
        /\ IdsOf(fn.agg[2]) = IdsOf(ListedUsed)
        /\ Len(fn.agg[2]) = Len(ListedUsed)
        /\ \A d \in Devices :
             Occurrences(fn.temperatures, fn.scen[d].value)
               = Occurrences(ListedTemperatures, fn.scen[d].value)
        /\ fn.agg[1] = (IF ListedTemperatures = <<>> THEN NoAverage
                        ELSE Mean(ListedTemperatures))
        /\ fn.compensated => fn.average = ListedAverage
        /\ Distance(fn.average, ListedAverage)
             <= (NumSenseBoxes + 1) * Ulp(ListedAverage)

\* Three fresh measurements, added in another order than the listed one, give
\* an average that differs from the listed order's in its last place.
C39_Witness ==
    /\ fn.op = "get_average_temperature_with_sources"
    /\ ~fn.compensated
    /\ Len(fn.agg[2]) = NumSenseBoxes
    /\ fn.box_ids # SENSEBOX_IDS
    /\ fn.average # ListedAverage
    /\ Distance(fn.average, ListedAverage) <= Ulp(ListedAverage)

\* C40: check_sensebox_accessibility returns (accessible, total) with total
\* the number of configured devices and accessible the number of them whose
\* fetch succeeded, so 0 <= accessible <= total; it raises nothing.
C40_AccessibilityProbe ==
    fn.op = "check_sensebox_accessibility" =>
        /\ ~fn.raised
        /\ fn.total = Len(SENSEBOX_IDS)
        /\ fn.accessible = fn.reachable
        /\ 0 <= fn.accessible /\ fn.accessible <= fn.total

====
